---- MODULE Spec2Model ----
(***************************************************************************)
(* Resilience and monitoring layer of PredictFinance:                      *)
(*   - api/data_fetcher.py      cascading market-data fetch                *)
(*   - database/db_manager.py   SQLite cache and PostgreSQL/SQLite ledger  *)
(*   - src/performance_monitor.py  prediction tracking and validation      *)
(*   - api/main.py              /predict/auto registration step            *)
(***************************************************************************)
EXTENDS Integers, Sequences, FiniteSets, TLC

(***************************************************************************)
(* Bounds of the model                                                     *)
(***************************************************************************)
\* longest explicitly enumerated batch of OHLCV rows a source may answer with
MaxRows == 2
\* longest explicitly enumerated content of the SQLite market-data cache
MaxDbRows == 2
\* rows of the "too short" batch of the 60-day scenario
ShortRows == 45
\* distinct prediction payloads (timestamp, predicted value) a caller records
MaxPayload == 2
\* clock ticks per calendar day, and the last tick of the clock
TicksPerDay == 2
MaxNow == 4
\* longest tracking list of a monitor, and most snapshots kept
MaxPreds == 2
MaxSnapshots == 1
\* most drift checks in one behaviour
MaxChecks == 2

(***************************************************************************)
(* Program constants                                                       *)
(***************************************************************************)
WINDOW_SIZE == 60
max_tentativas == 3
\* days searched forward for a realized price, safety margin of the
\* realized-price window, metrics window and rows loaded by a monitor
SearchDays == 5
MarginDays == 5
window_days == 7
LoadLimit == 500

(***************************************************************************)
(* OHLCV rows.  NaN is a distinguished value: every comparison with it is  *)
(* false, as in numpy.                                                     *)
(***************************************************************************)
NaN == -1
IsNaN(x) == x = NaN
LeqZero(x) == (~IsNaN(x)) /\ x <= 0
Geq(x, y) == (~IsNaN(x)) /\ (~IsNaN(y)) /\ x >= y
Lt0(x) == (~IsNaN(x)) /\ x < 0

GoodRow == [Open |-> 2, High |-> 3, Low |-> 1, Close |-> 2, Volume |-> 5]
NaNRow == [Open |-> 2, High |-> 3, Low |-> 1, Close |-> NaN, Volume |-> 5]
AllNaNRow == [Open |-> NaN, High |-> NaN, Low |-> NaN, Close |-> NaN, Volume |-> NaN]
ZeroRow == [Open |-> 0, High |-> 3, Low |-> 1, Close |-> 2, Volume |-> 5]
InvertedRow == [Open |-> 2, High |-> 1, Low |-> 3, Close |-> 2, Volume |-> 5]
RowKinds == {GoodRow, NaNRow, AllNaNRow, ZeroRow, InvertedRow}

Uniform(n) == [i \in 1..n |-> GoodRow]
\* the answers a remote source may give: every short batch with at most one
\* defective row, and the two long batches of the 60-day scenario
Defects(b) == {i \in 1..Len(b) : b[i] # GoodRow}
Batches ==
    {b \in UNION {[1..n -> RowKinds] : n \in 0..MaxRows} : Cardinality(Defects(b)) <= 1}
        \cup {Uniform(ShortRows), Uniform(WINDOW_SIZE)}
\* a call either raises or answers with a batch
Raise == [raises |-> TRUE, rows |-> <<>>]
Responses == {Raise} \cup {[raises |-> FALSE, rows |-> b] : b \in Batches}

Tickers == {"b3sa3.sa", "PETR4.SA"}
DiasSet == {1, 2, WINDOW_SIZE}

RowHasNaN(r) == IsNaN(r.Open) \/ IsNaN(r.High) \/ IsNaN(r.Low) \/ IsNaN(r.Close) \/ IsNaN(r.Volume)
RowAllNaN(r) == IsNaN(r.Open) /\ IsNaN(r.High) /\ IsNaN(r.Low) /\ IsNaN(r.Close) /\ IsNaN(r.Volume)
RowNonPositive(r) == LeqZero(r.Open) \/ LeqZero(r.High) \/ LeqZero(r.Low) \/ LeqZero(r.Close)
RowNegative(r) == Lt0(r.Open) \/ Lt0(r.High) \/ Lt0(r.Low) \/ Lt0(r.Close) \/ Lt0(r.Volume)
RowOrdered(r) == Geq(r.High, r.Low)

\* df.dropna(how='all')
DropAllNaN(s) == LET Keep(r) == ~RowAllNaN(r) IN SelectSeq(s, Keep)
\* df.tail(n)
TailRows(s, n) == IF Len(s) <= n THEN s ELSE SubSeq(s, Len(s) - n + 1, Len(s))

VARIABLES
    API_V8_DISPONIVEL, DB_DISPONIVEL, FALLBACK_DISPONIVEL,
    stock_data, fpc, ticker, dias, tentativa, fonte, ret, queried, df, sleeps

fetchVars == <<API_V8_DISPONIVEL, DB_DISPONIVEL, FALLBACK_DISPONIVEL,
               stock_data, fpc, ticker, dias, tentativa, fonte, ret, queried, df, sleeps>>

VARIABLES
    pg_enabled, pg, sqlite, lastOp, outage_ids

ledgerVars == <<pg_enabled, pg, sqlite, lastOp, outage_ids>>

VARIABLES
    predictions_db, json_file, metrics_history, now, holiday, monOp

monitorVars == <<predictions_db, json_file, metrics_history, now, holiday, monOp>>

VARIABLES
    drift_config, drift_history, driftOp

driftVars == <<drift_config, drift_history, driftOp>>

\* the state of the components added after the fetcher, ledger and monitor
VARIABLES
    jobs

jobVars == <<jobs>>

VARIABLES
    alert_history, alertOp

alertVars == <<alert_history, alertOp>>

VARIABLES
    reference_stats, daily_summaries, dailyOp

dailyVars == <<reference_stats, daily_summaries, dailyOp>>

\* the components added after these
VARIABLES
    histOp

histVars == <<histOp>>

\* self.window_days of the monitor and the last call of calculate_metrics
VARIABLES
    monitor_window, metricOp

metricVars == <<monitor_window, metricOp>>

laterVars == <<histVars, metricVars>>

extraVars == <<driftVars, jobVars, alertVars, dailyVars, laterVars>>

vars == <<fetchVars, ledgerVars, monitorVars, extraVars>>

(***************************************************************************)
(* api/data_fetcher.py                                                     *)
(***************************************************************************)
SrcV8 == "Yahoo Finance API v8"
SrcYF == "yfinance"
SrcSQLite == "SQLite Cache"
SrcFallback == "Fallback Hardcoded"
NoFonte == "unset"

HTTP_400 == 400
HTTP_500 == 500
HTTP_503 == 503

NoRet == [kind |-> "none", status |-> 0, matrix |-> <<>>, fonte |-> NoFonte]
OkRet(m, f) == [kind |-> "ok", status |-> 200, matrix |-> m, fonte |-> f]
HttpError(code) == [kind |-> "http", status |-> code, matrix |-> <<>>, fonte |-> NoFonte]

\* processar_dataframe: the returned matrix, or the HTTPException it raises
processar_dataframe(d, n) ==
    IF Len(d) < n THEN HttpError(HTTP_400)
    ELSE LET df_recente == TailRows(d, n) IN
         IF \E i \in 1..Len(df_recente) : RowHasNaN(df_recente[i]) THEN HttpError(HTTP_500)
         ELSE IF \E i \in 1..Len(df_recente) : RowNonPositive(df_recente[i]) THEN HttpError(HTTP_500)
         ELSE OkRet(df_recente, NoFonte)

\* MarketDataDB.get_data: the last n rows, oldest first, or None
get_data(table, n) ==
    IF Len(table) < n THEN [none |-> TRUE, rows |-> <<>>]
    ELSE [none |-> FALSE, rows |-> TailRows(table, n)]

\* api.fallback_data.get_dados_exemplo: the built-in example rows
get_dados_exemplo(n) == Uniform(n)

\* str.upper
Upper(t) == IF t = "b3sa3.sa" THEN "B3SA3.SA" ELSE t

\* scripts that load the cache: database/populate_db.py drops rows with
\* nulls or non-positive prices, database/update_db.py rejects the batch
populate_filter(b) ==
    LET Keep(r) == (~RowHasNaN(r)) /\ (~RowNonPositive(r)) IN SelectSeq(b, Keep)
validar_dados(b) ==
    /\ b # <<>>
    /\ \A i \in 1..Len(b) : ~RowHasNaN(b[i])
    /\ \A i \in 1..Len(b) : ~RowNegative(b[i])
    /\ \A i \in 1..Len(b) : RowOrdered(b[i])

FetchInit ==
    /\ API_V8_DISPONIVEL \in BOOLEAN
    /\ DB_DISPONIVEL \in BOOLEAN
    /\ FALLBACK_DISPONIVEL \in BOOLEAN
    /\ stock_data = <<>>
    /\ fpc = "idle"
    /\ ticker \in Tickers
    /\ dias \in DiasSet
    /\ tentativa = 0
    /\ fonte = NoFonte
    /\ ret = NoRet
    /\ queried = <<>>
    /\ df = <<>>
    /\ sleeps = <<>>

\* popular_database: the first load of the cache for the ticker
PopulateDb(b) ==
    /\ UNCHANGED <<ledgerVars, monitorVars, extraVars>>
    /\ fpc = "idle"
    /\ stock_data = <<>>
    /\ b # <<>>
    /\ populate_filter(b) # <<>>
    /\ Len(populate_filter(b)) <= MaxDbRows \/ Len(b) >= ShortRows
    /\ stock_data' = populate_filter(b)
    /\ UNCHANGED <<API_V8_DISPONIVEL, DB_DISPONIVEL, FALLBACK_DISPONIVEL,
                   fpc, ticker, dias, tentativa, fonte, ret, queried, df, sleeps>>

\* atualizar_ticker: appends the rows newer than the last cached date
UpdateDb(b) ==
    /\ UNCHANGED <<ledgerVars, monitorVars, extraVars>>
    /\ fpc = "idle"
    /\ Len(stock_data) + Len(b) <= MaxDbRows
    /\ validar_dados(b)
    /\ stock_data' = stock_data \o b
    /\ UNCHANGED <<API_V8_DISPONIVEL, DB_DISPONIVEL, FALLBACK_DISPONIVEL,
                   fpc, ticker, dias, tentativa, fonte, ret, queried, df, sleeps>>

\* buscar_dados_historicos, entry: lines 68-78
FetchStart ==
    /\ UNCHANGED <<ledgerVars, monitorVars, extraVars>>
    /\ fpc = "idle"
    /\ fpc' = IF API_V8_DISPONIVEL THEN "v8" ELSE "yf"
    /\ UNCHANGED <<API_V8_DISPONIVEL, DB_DISPONIVEL, FALLBACK_DISPONIVEL,
                   stock_data, ticker, dias, tentativa, fonte, ret, queried, df, sleeps>>

\* strategy 1, lines 78-97: one call of coletar_dados_yahoo_v8_custom_range;
\* on the way to strategy 2 line 102 resets df to an empty frame
TryV8(resp) ==
    /\ UNCHANGED <<ledgerVars, monitorVars, extraVars>>
    /\ fpc = "v8"
    /\ queried' = Append(queried, SrcV8)
    /\ IF resp.raises
       THEN /\ fpc' = "yf"
            /\ df' = <<>>
            /\ UNCHANGED <<fonte, ret>>
       ELSE LET d == DropAllNaN(resp.rows) IN
            IF d # <<>> /\ Len(d) >= dias
            THEN LET p == processar_dataframe(d, dias) IN
                 /\ fonte' = SrcV8
                 /\ IF p.kind = "ok"
                    THEN /\ ret' = OkRet(p.matrix, fonte')
                         /\ df' = d
                         /\ fpc' = "done"
                    ELSE /\ fpc' = "yf"
                         /\ df' = <<>>
                         /\ UNCHANGED ret
            ELSE /\ fpc' = "yf"
                 /\ df' = <<>>
                 /\ UNCHANGED <<fonte, ret>>
    /\ UNCHANGED <<API_V8_DISPONIVEL, DB_DISPONIVEL, FALLBACK_DISPONIVEL,
                   stock_data, ticker, dias, tentativa, sleeps>>

\* faulty variant: yfinance leaves the provenance as it found it
FonteYF_stale(f) == f
\* line 117: the provenance set when yfinance answers with rows
FonteYF(f) == SrcYF

\* where the cascade goes once the yfinance loop ends with an empty df
AfterYF == IF DB_DISPONIVEL THEN "sqlite" ELSE "final"

\* strategy 2, lines 99-126 and 173-175: one iteration of the yfinance loop;
\* a non-empty answer ends the loop and is processed and returned
TryYF(resp) ==
    /\ UNCHANGED <<ledgerVars, monitorVars, extraVars>>
    /\ fpc = "yf"
    /\ tentativa < max_tentativas
    /\ queried' = Append(queried, SrcYF)
    /\ IF resp.raises
       THEN /\ sleeps' = IF tentativa < max_tentativas - 1
                         THEN Append(sleeps, 2 ^ (tentativa + 1)) ELSE sleeps
            /\ tentativa' = tentativa + 1
            /\ fpc' = IF tentativa + 1 = max_tentativas THEN AfterYF ELSE "yf"
            /\ UNCHANGED <<fonte, ret, df>>
       ELSE IF resp.rows # <<>>
       THEN LET p == processar_dataframe(resp.rows, dias) IN
            /\ fonte' = FonteYF(fonte)
            /\ df' = resp.rows
            /\ ret' = IF p.kind = "ok" THEN OkRet(p.matrix, fonte') ELSE p
            /\ fpc' = "done"
            /\ UNCHANGED <<tentativa, sleeps>>
       ELSE /\ tentativa' = tentativa + 1
            /\ fpc' = IF tentativa + 1 = max_tentativas THEN AfterYF ELSE "yf"
            /\ UNCHANGED <<fonte, ret, sleeps, df>>
    /\ UNCHANGED <<API_V8_DISPONIVEL, DB_DISPONIVEL, FALLBACK_DISPONIVEL,
                   stock_data, ticker, dias>>

\* strategy 3, lines 128-146: the SQLite cache; dbOk is whether the
\* database file can be opened and read
TrySQLite(dbOk) ==
    /\ UNCHANGED <<ledgerVars, monitorVars, extraVars>>
    /\ fpc = "sqlite"
    /\ queried' = Append(queried, SrcSQLite)
    /\ IF ~dbOk
       THEN /\ fpc' = "final"
            /\ UNCHANGED <<fonte, ret>>
       ELSE LET dados_db == get_data(stock_data, dias) IN
            IF (~dados_db.none) /\ Len(dados_db.rows) >= dias
            THEN /\ fonte' = SrcSQLite
                 /\ ret' = OkRet(dados_db.rows, fonte')
                 /\ fpc' = "done"
            ELSE /\ fpc' = "final"
                 /\ UNCHANGED <<fonte, ret>>
    /\ UNCHANGED <<API_V8_DISPONIVEL, DB_DISPONIVEL, FALLBACK_DISPONIVEL,
                   stock_data, ticker, dias, tentativa, sleeps, df>>

\* final validation, lines 148-171: hardcoded fallback or 503
FetchFinal(fbOk) ==
    /\ UNCHANGED <<ledgerVars, monitorVars, extraVars>>
    /\ fpc = "final"
    /\ IF FALLBACK_DISPONIVEL /\ Upper(ticker) = "B3SA3.SA" /\ dias = WINDOW_SIZE
       THEN /\ queried' = Append(queried, SrcFallback)
            /\ IF fbOk
               THEN /\ fonte' = SrcFallback
                    /\ ret' = OkRet(get_dados_exemplo(dias), fonte')
               ELSE /\ ret' = HttpError(HTTP_503)
                    /\ UNCHANGED fonte
       ELSE /\ ret' = HttpError(HTTP_503)
            /\ UNCHANGED <<queried, fonte>>
    /\ fpc' = "done"
    /\ UNCHANGED <<API_V8_DISPONIVEL, DB_DISPONIVEL, FALLBACK_DISPONIVEL,
                   stock_data, ticker, dias, tentativa, sleeps, df>>

NextFetch ==
    \/ \E b \in Batches : PopulateDb(b)
    \/ \E b \in Batches : UpdateDb(b)
    \/ FetchStart
    \/ \E resp \in Responses : TryV8(resp)
    \/ \E resp \in Responses : TryYF(resp)
    \/ \E dbOk \in BOOLEAN : TrySQLite(dbOk)
    \/ \E fbOk \in BOOLEAN : FetchFinal(fbOk)


(***************************************************************************)
(* database/db_manager.py: the predictions table on PostgreSQL and SQLite  *)
(***************************************************************************)
Null == -1
NoneId == "None"
RequestIds == {"r1"}
MonitorTicker == "B3SA3.SA"
NoFilter == "any"

\* what a caller records: payload k is made at time k and predicts 10 * k
Payloads == 1..MaxPayload
PayloadTs(k) == k
PayloadValue(k) == 10 * k

\* the validation data a caller passes to update_prediction_validation
VTuples ==
    { [actual_value |-> 10, error |-> 0, error_pct |-> 0, validation_date |-> 8],
      [actual_value |-> 20, error |-> 10, error_pct |-> 50, validation_date |-> 9] }

\* how the two backends answer one call: pg is whether psycopg2.connect and
\* the statement succeed; sq is "ok", "unreachable" (the database file
\* cannot be opened) or "locked" (it opens but the statement fails)
Envs == [pg : BOOLEAN, sq : {"ok", "unreachable", "locked"}]

\* row written by INSERT ... VALUES (request_id, ticker, timestamp, predicted_value, FALSE)
NewRow(rid, tk, ts, val) ==
    [request_id |-> rid, ticker |-> tk, timestamp |-> ts, predicted_value |-> val,
     actual_value |-> Null, error |-> Null, error_pct |-> Null,
     validated |-> FALSE, validation_date |-> Null]

HasRow(table, rid) == \E i \in 1..Len(table) : table[i].request_id = rid
rowcount(table, rid) == Cardinality({i \in 1..Len(table) : table[i].request_id = rid})

\* PostgreSQL: INSERT ... ON CONFLICT (request_id) DO UPDATE SET predicted_value, timestamp
pg_upsert(table, rid, tk, ts, val) ==
    IF HasRow(table, rid)
    THEN [i \in 1..Len(table) |->
            IF table[i].request_id = rid
            THEN [table[i] EXCEPT !.predicted_value = val, !.timestamp = ts]
            ELSE table[i]]
    ELSE Append(table, NewRow(rid, tk, ts, val))

\* SQLite: INSERT OR REPLACE deletes the conflicting row and inserts a new one
sqlite_insert_or_replace(table, rid, tk, ts, val) ==
    LET Keep(r) == r.request_id # rid IN
    Append(SelectSeq(table, Keep), NewRow(rid, tk, ts, val))

\* UPDATE predictions SET actual_value, error, error_pct, validated, validation_date WHERE request_id = rid
update_rows(table, rid, vt) ==
    [i \in 1..Len(table) |->
        IF table[i].request_id = rid
        THEN [table[i] EXCEPT !.actual_value = vt.actual_value,
                              !.error = vt.error,
                              !.error_pct = vt.error_pct,
                              !.validated = TRUE,
                              !.validation_date = vt.validation_date]
        ELSE table[i]]

\* faulty variant: no SQLite fallback when PostgreSQL does not take the write
insert_prediction_no_fallback(pgT, sqT, enabled, env, rid, tk, ts, val) ==
    IF enabled /\ env.pg /\ rid # NoneId
    THEN [pg |-> pg_upsert(pgT, rid, tk, ts, val), sqlite |-> sqT, ret |-> "True", backend |-> "pg"]
    ELSE [pg |-> pgT, sqlite |-> sqT, ret |-> "False", backend |-> "none"]
\* MarketDataDB.insert_prediction: the tables afterwards, what the call
\* returns ("raise" when an exception leaves it) and the backend written
insert_prediction(pgT, sqT, enabled, env, rid, tk, ts, val) ==
    IF enabled /\ env.pg /\ rid # NoneId
    THEN [pg |-> pg_upsert(pgT, rid, tk, ts, val), sqlite |-> sqT, ret |-> "True", backend |-> "pg"]
    ELSE IF env.sq = "unreachable"
    THEN [pg |-> pgT, sqlite |-> sqT, ret |-> "raise", backend |-> "none"]
    ELSE IF env.sq = "locked" \/ rid = NoneId
    THEN [pg |-> pgT, sqlite |-> sqT, ret |-> "False", backend |-> "none"]
    ELSE [pg |-> pgT, sqlite |-> sqlite_insert_or_replace(sqT, rid, tk, ts, val),
          ret |-> "True", backend |-> "sqlite"]

\* MarketDataDB.update_prediction_validation
update_prediction_validation(pgT, sqT, enabled, env, rid, vt) ==
    IF enabled /\ env.pg /\ rowcount(pgT, rid) > 0
    THEN [pg |-> update_rows(pgT, rid, vt), sqlite |-> sqT, ret |-> "True", backend |-> "pg"]
    ELSE IF env.sq = "ok" /\ rowcount(sqT, rid) > 0
    THEN [pg |-> pgT, sqlite |-> update_rows(sqT, rid, vt), ret |-> "True", backend |-> "sqlite"]
    ELSE [pg |-> pgT, sqlite |-> sqT, ret |-> "False", backend |-> "none"]

\* WHERE 1=1 [AND ticker = tk] [AND validated = vf]
FilterRows(table, tk, vf) ==
    LET Keep(r) == /\ (tk # NoFilter => r.ticker = tk)
                   /\ (vf # NoFilter => r.validated = (vf = "True"))
    IN SelectSeq(table, Keep)

Min(a, b) == IF a <= b THEN a ELSE b

\* ORDER BY timestamp DESC LIMIT n: every answer the engine may give, rows
\* with equal timestamps coming in any order
OrderLimit(rows, n) ==
    LET len == Len(rows)
        orders == { p \in [1..len -> 1..len] :
                      /\ \A i, j \in 1..len : i # j => p[i] # p[j]
                      /\ \A i, j \in 1..len :
                            i < j => rows[p[i]].timestamp >= rows[p[j]].timestamp }
    IN { [i \in 1..Min(n, len) |-> rows[p[i]]] : p \in orders }

\* MarketDataDB.get_predictions: the answers the call may give
get_predictions(pgT, sqT, enabled, env, tk, vf, n) ==
    IF enabled /\ env.pg
    THEN { [ret |-> "ok", backend |-> "pg", rows |-> r] : r \in OrderLimit(FilterRows(pgT, tk, vf), n) }
    ELSE IF env.sq = "unreachable"
    THEN { [ret |-> "raise", backend |-> "none", rows |-> <<>>] }
    ELSE IF env.sq = "locked"
    THEN { [ret |-> "ok", backend |-> "none", rows |-> <<>>] }
    ELSE { [ret |-> "ok", backend |-> "sqlite", rows |-> r] : r \in OrderLimit(FilterRows(sqT, tk, vf), n) }

NoEnv == [pg |-> FALSE, sq |-> "ok"]
NoVt == [actual_value |-> Null, error |-> Null, error_pct |-> Null, validation_date |-> Null]
NoOp == [op |-> "none", rid |-> NoneId, val |-> Null, vt |-> NoVt, env |-> NoEnv,
         ret |-> "none", backend |-> "none", tk |-> NoFilter, vf |-> NoFilter,
         limit |-> 0, rows |-> <<>>]

\* MarketDataDB.__init__: PostgreSQL is enabled when DATABASE_URL is set and
\* the connection made at construction succeeded
\* a prediction of another ticker recorded earlier, on the backend that
\* takes the writes
SeedRow == NewRow("r0", "PETR4.SA", 0, 5)

LedgerInit ==
    /\ pg_enabled \in BOOLEAN
    /\ \E seed \in {<<>>, <<SeedRow>>} :
          /\ pg = IF pg_enabled THEN seed ELSE <<>>
          /\ sqlite = IF pg_enabled THEN <<>> ELSE seed
    /\ lastOp = NoOp
    /\ outage_ids = {}

\* the networked backend cannot serve the call: it was never enabled, or the
\* connection fails now
PgUnreachable(env) == ~(pg_enabled /\ env.pg)

\* outage_ids remembers the ids recorded successfully while PostgreSQL was
\* unreachable
InsertPrediction(rid, k, env) ==
    LET r == insert_prediction(pg, sqlite, pg_enabled, env, rid, MonitorTicker,
                               PayloadTs(k), PayloadValue(k)) IN
    /\ pg' = r.pg
    /\ sqlite' = r.sqlite
    /\ lastOp' = [NoOp EXCEPT !.op = "insert", !.rid = rid, !.val = PayloadValue(k),
                              !.env = env, !.ret = r.ret, !.backend = r.backend]
    /\ outage_ids' = IF PgUnreachable(env) /\ r.ret = "True"
                      THEN outage_ids \cup {rid} ELSE outage_ids
    /\ UNCHANGED pg_enabled
    /\ UNCHANGED <<fetchVars, monitorVars, extraVars>>

UpdatePredictionValidation(rid, vt, env) ==
    LET r == update_prediction_validation(pg, sqlite, pg_enabled, env, rid, vt) IN
    /\ pg' = r.pg
    /\ sqlite' = r.sqlite
    /\ lastOp' = [NoOp EXCEPT !.op = "update", !.rid = rid, !.vt = vt,
                              !.env = env, !.ret = r.ret, !.backend = r.backend]
    /\ UNCHANGED <<pg_enabled, outage_ids>>
    /\ UNCHANGED <<fetchVars, monitorVars, extraVars>>

QueryLimits == {1, 500}

GetPredictions(tk, vf, n, env) ==
    \E r \in get_predictions(pg, sqlite, pg_enabled, env, tk, vf, n) :
        /\ lastOp' = [NoOp EXCEPT !.op = "query", !.env = env, !.ret = r.ret,
                                  !.backend = r.backend, !.tk = tk, !.vf = vf,
                                  !.limit = n, !.rows = r.rows]
        /\ UNCHANGED <<pg_enabled, pg, sqlite, outage_ids>>
        /\ UNCHANGED <<fetchVars, monitorVars, extraVars>>

NextLedger ==
    \/ \E rid \in RequestIds, k \in Payloads, env \in Envs : InsertPrediction(rid, k, env)
    \/ \E rid \in RequestIds, vt \in VTuples, env \in Envs : UpdatePredictionValidation(rid, vt, env)
    \/ \E tk \in {NoFilter, MonitorTicker}, vf \in {NoFilter, "False"}, n \in QueryLimits, env \in Envs :
          GetPredictions(tk, vf, n, env)

FetchQuiet ==
    /\ API_V8_DISPONIVEL = TRUE
    /\ DB_DISPONIVEL = TRUE
    /\ FALLBACK_DISPONIVEL = FALSE
    /\ stock_data = <<>>
    /\ fpc = "idle"
    /\ ticker = "PETR4.SA"
    /\ dias = 1
    /\ tentativa = 0
    /\ fonte = NoFonte
    /\ ret = NoRet
    /\ queried = <<>>
    /\ df = <<>>
    /\ sleeps = <<>>

LedgerQuiet ==
    /\ pg_enabled = FALSE
    /\ pg = <<>>
    /\ sqlite = <<>>
    /\ lastOp = NoOp
    /\ outage_ids = {}

\* a ledger with no prediction yet
LedgerStart ==
    /\ pg_enabled \in BOOLEAN
    /\ pg = <<>>
    /\ sqlite = <<>>
    /\ lastOp = NoOp
    /\ outage_ids = {}

(***************************************************************************)
(* src/performance_monitor.py and the registration step of /predict/auto   *)
(***************************************************************************)
PredValues == {10, 12}
MonitorIds == {"r1"}
DaysBack == {7}
BothDown == [pg |-> FALSE, sq |-> "unreachable"]
MonitorEnvs == {[pg |-> TRUE, sq |-> "ok"], BothDown}

\* datetime.fromisoformat(timestamp).date(), pd.Timestamp(datetime.now().date())
DateOf(ts) == ts \div TicksPerDay
\* the close the market realized on day d
Close(d) == 10 + d
Abs(x) == IF x < 0 THEN -x ELSE x
NoDate == -1

\* the days of the requested window on which the market traded
Window(today, days_back) == {d \in 0..today : d >= today - (days_back + MarginDays)}
TradingDays(today, days_back, closed) == Window(today, days_back) \ {closed}
\* what one realized-price source answers: it raises, returns nothing, or
\* returns the closes of the trading days of the window
RealizedResponses(today, days_back, closed) ==
    {[raises |-> TRUE, dates |-> {}], [raises |-> FALSE, dates |-> {}],
     [raises |-> FALSE, dates |-> TradingDays(today, days_back, closed)]}
Failed(resp) == resp.raises \/ resp.dates = {}

\* lines 246-276: API v8 first, yfinance when it gave nothing
fetch_realized(v8, yf) ==
    IF (~v8.raises) /\ v8.dates # {} THEN [none |-> FALSE, dates |-> v8.dates]
    ELSE IF ~yf.raises THEN [none |-> FALSE, dates |-> yf.dates]
    ELSE [none |-> TRUE, dates |-> {}]

\* faulty variant: the emptiness test of line 279 is skipped
data_unavailable_never(data) == FALSE
\* line 279: data is None or data.empty
data_unavailable(data) == data.none \/ data.dates = {}

\* line 311: the target date has not come yet
is_future(next_day, today) == next_day > today

SetMin(S) == CHOOSE x \in S : \A y \in S : x <= y
SetMax(S) == CHOOSE x \in S : \A y \in S : x >= y
\* faulty variant: the latest day on or after next_day present in the data
found_date_latest(dates, next_day) ==
    LET cand == {d \in dates : d >= next_day} IN
    IF cand = {} THEN NoDate ELSE SetMax(cand)
\* lines 318-324: first day of next_day .. next_day + 4 present in the data
found_date(dates, next_day) ==
    LET cand == {d \in dates : d >= next_day /\ d <= next_day + (SearchDays - 1)} IN
    IF cand = {} THEN NoDate ELSE SetMin(cand)

\* faulty variant: the signed difference
prediction_error_signed(predicted, actual) == predicted - actual
\* line 329: error = abs(predicted_value - actual_value)
prediction_error(predicted, actual) == Abs(predicted - actual)

\* lines 302-363: the body of the loop for the unvalidated entry at index i
validate_one(i, st, dates, today, nowts, enabled, env) ==
    LET p == st.preds[i]
        next_day == DateOf(p.timestamp) + 1
        fd == found_date(dates, next_day)
    IN
    IF is_future(next_day, today)
    THEN [st EXCEPT !.skipped_future = @ + 1]
    ELSE IF fd # NoDate
    THEN LET actual == Close(fd)
             err == prediction_error(p.predicted_value, actual)
             vt == [actual_value |-> actual, error |-> err,
                    error_pct |-> (err * 100) \div actual, validation_date |-> nowts]
             r == update_prediction_validation(st.pg, st.sqlite, enabled, env, p.request_id, vt)
         IN [st EXCEPT !.preds[i] = [p EXCEPT !.validated = TRUE,
                                              !.actual_value = vt.actual_value,
                                              !.error = vt.error,
                                              !.error_pct = vt.error_pct,
                                              !.validation_date = vt.validation_date],
                       !.pg = r.pg,
                       !.sqlite = r.sqlite,
                       !.validated = @ + 1,
                       !.raised = (p.request_id = NoneId)]
    ELSE [st EXCEPT !.not_found = @ + 1, !.raised = (p.request_id = NoneId)]

RECURSIVE ValidateLoop(_, _, _, _, _, _, _)
ValidateLoop(i, st, dates, today, nowts, enabled, env) ==
    IF i > Len(st.preds) \/ st.raised THEN st
    ELSE IF st.preds[i].validated
    THEN ValidateLoop(i + 1, st, dates, today, nowts, enabled, env)
    ELSE ValidateLoop(i + 1, validate_one(i, st, dates, today, nowts, enabled, env),
                      dates, today, nowts, enabled, env)

\* validated.sort(key=timestamp): a stable insertion sort
RECURSIVE InsertSorted(_, _)
InsertSorted(sorted, e) ==
    IF sorted = <<>> THEN <<e>>
    ELSE IF sorted[Len(sorted)].timestamp <= e.timestamp THEN Append(sorted, e)
    ELSE Append(InsertSorted(SubSeq(sorted, 1, Len(sorted) - 1), e), sorted[Len(sorted)])
RECURSIVE SortByTimestamp(_)
SortByTimestamp(seq) ==
    IF seq = <<>> THEN <<>>
    ELSE InsertSorted(SortByTimestamp(SubSeq(seq, 1, Len(seq) - 1)), seq[Len(seq)])

RECURSIVE SumOf(_)
SumOf(seq) == IF seq = <<>> THEN 0 ELSE seq[1] + SumOf(Tail(seq))
\* integer square root
Isqrt(n) == CHOOSE r \in 0..n : r * r <= n /\ (r + 1) * (r + 1) > n

NoSummary == [last_update |-> Null, current_mae |-> Null, current_mape |-> Null,
              total_predictions_validated |-> 0]

\* PerformanceMonitor.calculate_metrics: the metrics history afterwards;
\* means are integer quotients
calculate_metrics_oldest(preds, mh, nowts, w) ==
    LET IsVal(e) == e.validated /\ e.error # Null
        validated == SortByTimestamp(SelectSeq(preds, IsVal))
        recent == IF Len(validated) > w THEN SubSeq(validated, 1, w) ELSE validated
        n == Len(recent)
        errs == [i \in 1..n |-> recent[i].error]
        pctq == [i \in 1..n |-> recent[i].error_pct]
        sqs == [i \in 1..n |-> recent[i].error * recent[i].error]
        pcts == {recent[i].error_pct : i \in 1..n}
        metrics == [timestamp |-> nowts,
                    window_days |-> n,
                    mae |-> SumOf(errs) \div n,
                    mape |-> SumOf(pctq) \div n,
                    rmse |-> Isqrt(SumOf(sqs) \div n),
                    total_validated |-> Len(validated),
                    min_error_pct |-> SetMin(pcts),
                    max_error_pct |-> SetMax(pcts)]
    IN IF validated = <<>> THEN mh
       ELSE [daily_metrics |-> Append(mh.daily_metrics, metrics),
             summary |-> [last_update |-> metrics.timestamp,
                          current_mae |-> metrics.mae,
                          current_mape |-> metrics.mape,
                          total_predictions_validated |-> Len(validated)]]
\* w is self.window_days
calculate_metrics(preds, mh, nowts, w) ==
    LET IsVal(e) == e.validated /\ e.error # Null
        validated == SortByTimestamp(SelectSeq(preds, IsVal))
        recent == IF Len(validated) > w
                  THEN SubSeq(validated, Len(validated) - w + 1, Len(validated))
                  ELSE validated
        n == Len(recent)
        errs == [i \in 1..n |-> recent[i].error]
        pctq == [i \in 1..n |-> recent[i].error_pct]
        sqs == [i \in 1..n |-> recent[i].error * recent[i].error]
        pcts == {recent[i].error_pct : i \in 1..n}
        metrics == [timestamp |-> nowts,
                    window_days |-> n,
                    mae |-> SumOf(errs) \div n,
                    mape |-> SumOf(pctq) \div n,
                    rmse |-> Isqrt(SumOf(sqs) \div n),
                    total_validated |-> Len(validated),
                    min_error_pct |-> SetMin(pcts),
                    max_error_pct |-> SetMax(pcts)]
    IN IF validated = <<>> THEN mh
       ELSE [daily_metrics |-> Append(mh.daily_metrics, metrics),
             summary |-> [last_update |-> metrics.timestamp,
                          current_mae |-> metrics.mae,
                          current_mape |-> metrics.mape,
                          total_predictions_validated |-> Len(validated)]]

\* PerformanceMonitor._load_predictions_db: the lists a new monitor may start with
load_predictions_db(pgT, sqT, enabled, env, file) ==
    { IF r.ret = "ok" /\ r.rows # <<>> THEN r.rows ELSE file :
        r \in get_predictions(pgT, sqT, enabled, env, MonitorTicker, NoFilter, LoadLimit) }

\* PerformanceMonitor._save_prediction_to_db: True/False; an exception of
\* insert_prediction is caught and gives False
save_prediction_to_db(dbret) == IF dbret = "True" THEN "True" ELSE "False"

NoMonOp == [op |-> "none", kind |-> "none", db_ret |-> "none",
            fetched |-> "none", unvalidated |-> 0, validated |-> 0,
            skipped_future |-> 0, not_found |-> 0, pending |-> 0]

MonitorInit ==
    /\ predictions_db = <<>>
    /\ json_file = <<>>
    /\ metrics_history = [daily_metrics |-> <<>>, summary |-> NoSummary]
    /\ now = 0
    /\ holiday \in {NoDate, 1}
    /\ monOp = NoMonOp

MonitorQuiet ==
    /\ predictions_db = <<>>
    /\ json_file = <<>>
    /\ metrics_history = [daily_metrics |-> <<>>, summary |-> NoSummary]
    /\ now = 0
    /\ holiday = NoDate
    /\ monOp = NoMonOp

\* time passes
Tick ==
    /\ now < MaxNow
    /\ now' = now + 1
    /\ UNCHANGED <<predictions_db, json_file, metrics_history, holiday, monOp>>
    /\ UNCHANGED <<fetchVars, ledgerVars, extraVars>>

\* PerformanceMonitor.__init__: a new monitor object replaces the current one
NewMonitor(env) ==
    /\ \E l \in load_predictions_db(pg, sqlite, pg_enabled, env, json_file) :
          predictions_db' = l
    /\ monOp' = [NoMonOp EXCEPT !.op = "new"]
    /\ UNCHANGED <<json_file, metrics_history, now, holiday>>
    /\ UNCHANGED <<fetchVars, ledgerVars, extraVars>>

\* PerformanceMonitor.register_prediction with prediction_date = now
RegisterPrediction(val, rid, env) ==
    LET entry == NewRow(rid, MonitorTicker, now, val)
        r == insert_prediction(pg, sqlite, pg_enabled, env, rid, MonitorTicker, now, val)
    IN
    /\ Len(predictions_db) < MaxPreds
    /\ pg' = r.pg
    /\ sqlite' = r.sqlite
    /\ predictions_db' = Append(predictions_db, entry)
    /\ json_file' = predictions_db'
    /\ monOp' = [NoMonOp EXCEPT !.op = "register", !.kind = "ok",
                                !.db_ret = save_prediction_to_db(r.ret)]
    /\ UNCHANGED <<metrics_history, now, holiday>>
    /\ UNCHANGED <<fetchVars, pg_enabled, lastOp, outage_ids, extraVars>>

\* fazer_previsao_auto, lines 588-607: a new monitor registers the prediction
\* inside try/except and the prediction is returned
PredictAuto(val, rid, env) ==
    \E l \in load_predictions_db(pg, sqlite, pg_enabled, env, json_file) :
        LET entry == NewRow(rid, MonitorTicker, now, val)
            r == insert_prediction(pg, sqlite, pg_enabled, env, rid, MonitorTicker, now, val)
        IN
        /\ Len(l) < MaxPreds
        /\ pg' = r.pg
        /\ sqlite' = r.sqlite
        /\ predictions_db' = Append(l, entry)
        /\ json_file' = predictions_db'
        /\ monOp' = [NoMonOp EXCEPT !.op = "predict_auto", !.kind = "ok",
                                    !.db_ret = save_prediction_to_db(r.ret)]
        /\ UNCHANGED <<metrics_history, now, holiday>>
        /\ UNCHANGED <<fetchVars, pg_enabled, lastOp, outage_ids, extraVars>>

Unvalidated(preds) == LET Pending(e) == ~e.validated IN SelectSeq(preds, Pending)

\* PerformanceMonitor.validate_predictions
ValidatePredictions(days_back, v8, yf, env) ==
    LET unvalidated == Unvalidated(predictions_db)
        data == fetch_realized(v8, yf)
        today == DateOf(now)
        fetched == IF Failed(v8) /\ Failed(yf) THEN "failed" ELSE "data"
        st0 == [preds |-> predictions_db, pg |-> pg, sqlite |-> sqlite, validated |-> 0,
                skipped_future |-> 0, not_found |-> 0, raised |-> FALSE]
        st == ValidateLoop(1, st0, data.dates, today, now, pg_enabled, env)
    IN
    /\ Len(metrics_history.daily_metrics) < MaxSnapshots
    /\ IF unvalidated = <<>>
       THEN /\ monOp' = [NoMonOp EXCEPT !.op = "validate", !.kind = "nothing"]
            /\ UNCHANGED <<predictions_db, json_file, metrics_history, pg, sqlite>>
       ELSE IF data_unavailable(data)
       THEN /\ monOp' = [NoMonOp EXCEPT !.op = "validate", !.kind = "error",
                                        !.fetched = fetched,
                                        !.pending = Len(unvalidated)]
            /\ UNCHANGED <<predictions_db, json_file, metrics_history, pg, sqlite>>
       ELSE IF st.raised
       THEN /\ predictions_db' = st.preds
            /\ pg' = st.pg
            /\ sqlite' = st.sqlite
            /\ monOp' = [NoMonOp EXCEPT !.op = "validate", !.kind = "raise",
                                        !.fetched = fetched]
            /\ UNCHANGED <<json_file, metrics_history>>
       ELSE /\ predictions_db' = st.preds
            /\ pg' = st.pg
            /\ sqlite' = st.sqlite
            /\ json_file' = st.preds
            /\ metrics_history' = IF st.validated > 0
                                  THEN calculate_metrics(st.preds, metrics_history, now, monitor_window)
                                  ELSE metrics_history
            /\ monOp' = [NoMonOp EXCEPT !.op = "validate", !.kind = "ok",
                                        !.fetched = fetched,
                                        !.unvalidated = Len(unvalidated),
                                        !.validated = st.validated,
                                        !.skipped_future = st.skipped_future,
                                        !.not_found = st.not_found,
                                        !.pending = Len(unvalidated) - st.validated - st.skipped_future]
    /\ UNCHANGED <<now, holiday>>
    /\ UNCHANGED <<fetchVars, pg_enabled, lastOp, outage_ids, extraVars>>

ValidateJob(days_back, env) ==
    \E v8 \in RealizedResponses(DateOf(now), days_back, holiday) :
        IF ~Failed(v8)
        THEN ValidatePredictions(days_back, v8, v8, env)
        ELSE \E yf \in RealizedResponses(DateOf(now), days_back, holiday) :
                ValidatePredictions(days_back, v8, yf, env)

NextMonitor ==
    \/ Tick
    \/ \E env \in MonitorEnvs : NewMonitor(env)
    \/ \E val \in PredValues, rid \in MonitorIds, env \in MonitorEnvs : RegisterPrediction(val, rid, env)
    \/ \E val \in PredValues, rid \in MonitorIds, env \in MonitorEnvs : PredictAuto(val, rid, env)
    \/ \E days_back \in DaysBack, env \in MonitorEnvs : ValidateJob(days_back, env)

(***************************************************************************)
(* src/drift_detector.py: SlidingWindowDriftDetector                       *)
(* Prices are integers; means, deviations and percentages are fixed-point  *)
(* numbers in hundredths.                                                  *)
(***************************************************************************)
reference_window_days == 30
current_window_days == 7
mean_threshold_pct == 5
std_threshold_pct == 50
\* significance_level 0.05, in percent
significance_level == 5
MinCurrent == 3
MinReference == 10
KsMinCurrent == 5
KsMinReference == 20
KsMeanPct == 3
KsStdPct == 30
HighMeanPct == 10
HighStdPct == 100
KeepReports == 100

Max(a, b) == IF a >= b THEN a ELSE b

\* seq[a:b] of Python: a negative index counts from the end
PyIndex(i, len) == IF i < 0 THEN Max(0, len + i) ELSE Min(i, len)
PySlice(seq, a, b) ==
    LET na == PyIndex(a, Len(seq))
        nb == PyIndex(b, Len(seq))
    IN IF na >= nb THEN <<>> ELSE SubSeq(seq, na + 1, nb)

\* __init__: the configuration a detector is built with, here its defaults
DefaultConfig ==
    [reference_window_days |-> reference_window_days,
     current_window_days |-> current_window_days,
     mean_threshold_pct |-> mean_threshold_pct,
     std_threshold_pct |-> std_threshold_pct,
     significance_level |-> significance_level]

\* df.iloc[-self.current_window_days:]
current_window(d, cfg) == PySlice(d, -cfg.current_window_days, Len(d))
\* df.iloc[start_ref:end_ref]
reference_window(d, cfg) ==
    LET end_ref == Len(d) - cfg.current_window_days
        start_ref == Max(0, end_ref - cfg.reference_window_days)
    IN PySlice(d, start_ref, end_ref)

\* lines 242-247: the periods of the report are read from the index when it
\* holds dates; df.index[-current_window_days] is outside a shorter index
IndexKinds == {"datetime", "range"}
index_error(d, cfg, index_kind) ==
    /\ index_kind = "datetime"
    /\ cfg.current_window_days > Len(d)

\* _calculate_stats: n_samples, mean and (population) std in hundredths
calculate_stats(data) ==
    LET n == Len(data)
        sq == [i \in 1..n |-> data[i] * data[i]]
        S == SumOf(data)
        Q == SumOf(sq)
    IN [n_samples |-> n,
        mean |-> (S * 100) \div n,
        std |-> Isqrt(((n * Q - S * S) * 10000) \div (n * n))]

\* abs((current - reference) / reference) * 100, in hundredths of a percent
DiffPct(c, r) == (Abs(c - r) * 10000) \div r
\* diff > pct, pct in whole percents
Exceeds(diff, pct) == diff > pct * 100

\* line 192: the windows are too small to analyse
insufficient_lax(nc, nr) == nc < MinCurrent /\ nr < MinReference
insufficient(nc, nr) == nc < MinCurrent \/ nr < MinReference

\* lines 233-234: the Kolmogorov-Smirnov test is run
ks_is_run(nc, nr) == nc >= KsMinCurrent /\ nr >= KsMinReference

\* a result without report fields: the key drift_detected is absent
NoReport == [kind |-> "none", drift_detected |-> "absent", severity |-> "none",
             alerts |-> <<>>, mean_diff_pct |-> Null, std_diff_pct |-> Null,
             ks_p_value |-> Null]

\* detect_drift_sliding_window: the error result, the exception of a division
\* by a zero reference mean or deviation, or the report; p_value is what
\* stats.ks_2samp answers, in percent
\* self is the detector: its configuration, the reference statistics and
\* the history it loaded; index_kind tells whether df.index holds dates
reference_stats_stored(self, ref) ==
    IF self.reference_stats.n_samples > 0 THEN self.reference_stats
    ELSE calculate_stats(ref)
\* line 197: the reference statistics are those of the reference window
reference_stats_of(self, ref) == calculate_stats(ref)

detect_drift_sliding_window(self, d, p_value, index_kind) ==
    LET cfg == self.config
        cur == current_window(d, cfg)
        ref == reference_window(d, cfg)
    IN
    IF insufficient(Len(cur), Len(ref))
    THEN [NoReport EXCEPT !.kind = "error"]
    ELSE
    LET cs == calculate_stats(cur)
        rs == reference_stats_of(self, ref)
    IN
    IF rs.mean = 0 \/ rs.std = 0 \/ index_error(d, cfg, index_kind)
    THEN [NoReport EXCEPT !.kind = "raise"]
    ELSE
    LET mean_diff == DiffPct(cs.mean, rs.mean)
        std_diff == DiffPct(cs.std, rs.std)
        by_mean == Exceeds(mean_diff, cfg.mean_threshold_pct)
        by_std == Exceeds(std_diff, cfg.std_threshold_pct)
        ks == ks_is_run(Len(cur), Len(ref))
        by_ks == /\ ks
                 /\ p_value < cfg.significance_level
                 /\ (Exceeds(mean_diff, KsMeanPct) \/ Exceeds(std_diff, KsStdPct))
        drift == by_mean \/ by_std \/ by_ks
    IN [kind |-> "report",
        drift_detected |-> drift,
        severity |-> IF Exceeds(mean_diff, HighMeanPct) \/ Exceeds(std_diff, HighStdPct)
                     THEN "high" ELSE IF drift THEN "medium" ELSE "none",
        alerts |-> (IF by_mean THEN <<"mean">> ELSE <<>>) \o
                   (IF by_std THEN <<"std">> ELSE <<>>) \o
                   (IF by_ks THEN <<"ks">> ELSE <<>>),
        mean_diff_pct |-> mean_diff,
        std_diff_pct |-> std_diff,
        ks_p_value |-> IF ks THEN p_value ELSE Null]

\* lines 283-286: append and keep the last KeepReports reports
append_report_keep_first(history, report) ==
    LET h == Append(history, report) IN
    IF Len(h) > KeepReports THEN SubSeq(h, 1, KeepReports) ELSE h
append_report(history, report) ==
    LET h == Append(history, report) IN
    IF Len(h) > KeepReports THEN SubSeq(h, Len(h) - KeepReports + 1, Len(h)) ELSE h

\* the price series handed to the detector: a reference part followed by
\* the seven most recent closes
RefKinds == {"spread", "flat"}
CurKinds == {"same", "shift", "flat", "slight"}
RefPart(kind, n) ==
    [i \in 1..n |-> IF kind = "flat" THEN 10 ELSE IF i % 2 = 1 THEN 9 ELSE 11]
CurPart(kind) ==
    CASE kind = "same" -> <<9, 11, 9, 11, 9, 11, 10>>
      [] kind = "shift" -> <<10, 12, 10, 12, 10, 12, 11>>
      [] kind = "flat" -> <<10, 10, 10, 10, 10, 10, 10>>
      [] kind = "slight" -> <<9, 12, 9, 12, 10, 11, 10>>
      [] kind = "jump" -> <<11, 13, 11, 13, 11, 13, 12>>
DfLengths == {2, 5, 12, 17, 27, 40}
MakeDf(rk, ck, len) ==
    IF len <= current_window_days THEN SubSeq(CurPart(ck), 1, len)
    ELSE RefPart(rk, len - current_window_days) \o CurPart(ck)
PValues == {1, 50}

\* the rows of a series of n closes, by position
RowNumbers(n) == [i \in 1..n |-> i]

NoDriftOp == [op |-> "none", rk |-> "none", ck |-> "none", len |-> 0,
              index_kind |-> "none", n_current |-> 0, n_reference |-> 0,
              current_rows |-> <<>>, reference_rows |-> <<>>,
              ref_std |-> Null, p_value |-> Null, checks |-> 0, before |-> 0,
              result |-> NoReport]

DriftInit ==
    /\ drift_config = DefaultConfig
    /\ drift_history = <<>>
    /\ driftOp = NoDriftOp

\* one call of detect_drift_sliding_window
DetectDrift(rk, ck, len, p_value, index_kind) ==
    LET d == MakeDf(rk, ck, len)
        self == [config |-> drift_config, reference_stats |-> reference_stats,
                 drift_history |-> drift_history]
        cur == current_window(d, drift_config)
        ref == reference_window(d, drift_config)
        r == detect_drift_sliding_window(self, d, p_value, index_kind)
    IN
    /\ driftOp.checks < MaxChecks
    /\ drift_history' = IF r.kind = "report" THEN append_report(drift_history, r)
                        ELSE drift_history
    /\ driftOp' = [op |-> "detect", rk |-> rk, ck |-> ck, len |-> len,
                   index_kind |-> index_kind,
                   n_current |-> Len(cur), n_reference |-> Len(ref),
                   current_rows |-> current_window(RowNumbers(len), drift_config),
                   reference_rows |-> reference_window(RowNumbers(len), drift_config),
                   ref_std |-> IF ref = <<>> THEN Null ELSE calculate_stats(ref).std,
                   p_value |-> p_value, checks |-> driftOp.checks + 1,
                   before |-> Len(drift_history), result |-> r]
    /\ UNCHANGED <<drift_config, fetchVars, ledgerVars, monitorVars, jobVars, alertVars,
                   dailyVars, laterVars>>

NextDrift ==
    \E rk \in RefKinds, ck \in CurKinds, len \in DfLengths, p_value \in PValues :
        DetectDrift(rk, ck, len, p_value, "datetime")

(***************************************************************************)
(* Runs of the validation job: run_daily_monitoring.py (scheduler) and     *)
(* POST /monitoring/validate (api/main.py); each run builds its own        *)
(* PerformanceMonitor and calls validate_predictions                       *)
(***************************************************************************)
JobIds == {"cron", "api"}
\* the values predicted between the runs
JobValues == {12}
AllUp == [pg |-> TRUE, sq |-> "ok"]

\* PerformanceMonitor.validate_predictions on the list and metrics history
\* of one monitor object: what the call leaves in the object, the backends
\* and the files, and what it returns
validate_predictions(preds, mh, pgT, sqT, file, mfile, enabled, env, v8, yf, nowts) ==
    LET unvalidated == Unvalidated(preds)
        data == fetch_realized(v8, yf)
        st0 == [preds |-> preds, pg |-> pgT, sqlite |-> sqT, validated |-> 0,
                skipped_future |-> 0, not_found |-> 0, raised |-> FALSE]
        st == ValidateLoop(1, st0, data.dates, DateOf(nowts), nowts, enabled, env)
        same == [preds |-> preds, mh |-> mh, pg |-> pgT, sqlite |-> sqT, file |-> file,
                 mfile |-> mfile, kind |-> "nothing", validated |-> 0, pending |-> 0]
    IN
    IF unvalidated = <<>> THEN same
    ELSE IF data_unavailable(data)
    THEN [same EXCEPT !.kind = "error", !.pending = Len(unvalidated)]
    ELSE IF st.raised
    THEN [same EXCEPT !.kind = "raise", !.preds = st.preds, !.pg = st.pg, !.sqlite = st.sqlite]
    ELSE LET mh2 == IF st.validated > 0 THEN calculate_metrics(st.preds, mh, nowts, window_days) ELSE mh IN
         [preds |-> st.preds, mh |-> mh2, pg |-> st.pg, sqlite |-> st.sqlite,
          file |-> st.preds, mfile |-> IF st.validated > 0 THEN mh2 ELSE mfile,
          kind |-> "ok", validated |-> st.validated,
          pending |-> Len(unvalidated) - st.validated - st.skipped_future]

IdleJob == [pc |-> "idle", preds |-> <<>>,
            mh |-> [daily_metrics |-> <<>>, summary |-> NoSummary],
            validated |-> 0]

JobInit == jobs = [j \in JobIds |-> IdleJob]

\* a run starts: PerformanceMonitor(...) loads the list and the metrics file
JobStart(j) ==
    /\ jobs[j].pc = "idle"
    /\ Len(metrics_history.daily_metrics) < MaxSnapshots
    /\ \E l \in load_predictions_db(pg, sqlite, pg_enabled, AllUp, json_file) :
          jobs' = [jobs EXCEPT ![j] = [pc |-> "loaded", preds |-> l,
                                       mh |-> metrics_history, validated |-> 0]]
    /\ UNCHANGED <<fetchVars, ledgerVars, monitorVars, driftVars, alertVars, dailyVars, laterVars>>

\* the run calls validate_predictions and ends
JobValidate(j, v8, yf) ==
    LET r == validate_predictions(jobs[j].preds, jobs[j].mh, pg, sqlite, json_file,
                                  metrics_history, pg_enabled, AllUp, v8, yf, now)
    IN
    /\ jobs[j].pc = "loaded"
    /\ pg' = r.pg
    /\ sqlite' = r.sqlite
    /\ json_file' = r.file
    /\ metrics_history' = r.mfile
    /\ jobs' = [jobs EXCEPT ![j] = [IdleJob EXCEPT !.validated = r.validated]]
    /\ UNCHANGED <<predictions_db, now, holiday, monOp>>
    /\ UNCHANGED <<fetchVars, pg_enabled, lastOp, outage_ids, driftVars, alertVars, dailyVars, laterVars>>

JobRun(j) ==
    \E v8 \in RealizedResponses(DateOf(now), window_days, holiday) :
        IF ~Failed(v8)
        THEN JobValidate(j, v8, v8)
        ELSE \E yf \in RealizedResponses(DateOf(now), window_days, holiday) :
                JobValidate(j, v8, yf)

\* time passes and predictions are served and registered between the runs
NextJobs ==
    \/ Tick
    \/ \E val \in JobValues, rid \in MonitorIds : PredictAuto(val, rid, AllUp)
    \/ \E j \in JobIds : JobStart(j)
    \/ \E j \in JobIds : JobRun(j)

(***************************************************************************)
(* The alert system: src/alert_system.py                                   *)
(***************************************************************************)
MaxAlerts == 2
\* AlertThresholds, in the units of calculate_metrics
mae_threshold == 2
mape_threshold == 5

\* the metrics dictionaries handed to the check: any of the two keys may be
\* missing
MaeValues == {1, 2, 3}
MapeValues == {4, 5, 6}
MetricsDicts ==
    { [k \in D |-> IF k = "mae" THEN a ELSE b] :
        D \in SUBSET {"mae", "mape"}, a \in MaeValues, b \in MapeValues }
Lookup(metrics, key) == IF key \in DOMAIN metrics THEN metrics[key] ELSE Null

\* faulty variant: a value equal to its threshold is a violation
check_performance_metrics_inclusive(metrics) ==
    (IF "mae" \in DOMAIN metrics /\ metrics["mae"] >= mae_threshold
     THEN <<[metric |-> "mae", value |-> metrics["mae"], threshold |-> mae_threshold]>>
     ELSE <<>>)
    \o
    (IF "mape" \in DOMAIN metrics /\ metrics["mape"] >= mape_threshold
     THEN <<[metric |-> "mape", value |-> metrics["mape"], threshold |-> mape_threshold]>>
     ELSE <<>>)

\* AlertSystem.check_performance_metrics: the list of violations; a
\* violation message names the metric, its value and the threshold
check_performance_metrics(metrics) ==
    (IF "mae" \in DOMAIN metrics /\ metrics["mae"] > mae_threshold
     THEN <<[metric |-> "mae", value |-> metrics["mae"], threshold |-> mae_threshold]>>
     ELSE <<>>)
    \o
    (IF "mape" \in DOMAIN metrics /\ metrics["mape"] > mape_threshold
     THEN <<[metric |-> "mape", value |-> metrics["mape"], threshold |-> mape_threshold]>>
     ELSE <<>>)

\* alert_config.json: the channels; email_config is always present, as in
\* the default file written by _load_config
AlertConfigs ==
    [enable_logs : {TRUE}, enable_slack : BOOLEAN, slack_webhook_url : BOOLEAN,
     enable_email : BOOLEAN, sender_email : BOOLEAN]
\* what requests.post does: answers 200, answers another status, or raises
\* (connection refused, timeout)
SinkOutcomes == {"200", "non200", "raise"}

\* faulty variant: an exception of requests.post leaves the method
send_slack_alert_uncaught(config, sink) ==
    IF ~config.slack_webhook_url THEN "not_tried"
    ELSE IF sink = "200" THEN "sent"
    ELSE IF sink = "non200" THEN "failed"
    ELSE "raise"

\* AlertSystem._send_slack_alert: the post is inside try/except Exception
send_slack_alert(config, sink) ==
    IF ~config.slack_webhook_url THEN "not_tried"
    ELSE IF sink = "200" THEN "sent"
    ELSE "failed"

\* AlertSystem.send_alert on a history equal to the file (the object was
\* just built, or is the only writer): the history saved, what the Slack
\* channel did, and whether an exception leaves the call
send_alert(history, config, alert, sink) ==
    LET h == Append(history, alert)
        slack == IF config.enable_slack /\ config.slack_webhook_url
                 THEN send_slack_alert(config, sink) ELSE "not_tried"
        email == IF slack # "raise" /\ config.enable_email /\ config.sender_email
                 THEN "printed" ELSE "not_tried"
    IN [history |-> h, slack |-> slack, email |-> email, raised |-> slack = "raise"]

AlertTypes == {"performance_degradation", "data_drift"}
Severities == {"WARNING", "CRITICAL"}
NoAlert == [timestamp |-> Null, type |-> "none", severity |-> "none", message |-> "none"]
NoAlertOp == [op |-> "none", mae |-> Null, mape |-> Null, violations |-> <<>>,
              alert |-> NoAlert, sink |-> "none", slack |-> "none", raised |-> FALSE]

AlertInit ==
    /\ alert_history = <<>>
    /\ alertOp = NoAlertOp

\* one call of check_performance_metrics
CheckPerformanceMetrics(metrics) ==
    /\ alertOp' = [NoAlertOp EXCEPT !.op = "check",
                                    !.mae = Lookup(metrics, "mae"),
                                    !.mape = Lookup(metrics, "mape"),
                                    !.violations = check_performance_metrics(metrics)]
    /\ UNCHANGED <<alert_history, fetchVars, ledgerVars, monitorVars, driftVars, jobVars, dailyVars, laterVars>>

\* one call of send_alert
SendAlert(alert_type, severity, config, sink) ==
    LET alert == [timestamp |-> now, type |-> alert_type, severity |-> severity,
                  message |-> alert_type]
        r == send_alert(alert_history, config, alert, sink)
    IN
    /\ Len(alert_history) < MaxAlerts
    /\ alert_history' = r.history
    /\ alertOp' = [NoAlertOp EXCEPT !.op = "send", !.alert = alert, !.sink = sink,
                                    !.slack = r.slack, !.raised = r.raised]
    /\ UNCHANGED <<fetchVars, ledgerVars, monitorVars, driftVars, jobVars, dailyVars, laterVars>>

NextAlert ==
    \/ \E metrics \in MetricsDicts : CheckPerformanceMetrics(metrics)
    \/ \E t \in AlertTypes, sev \in Severities, config \in AlertConfigs, sink \in SinkOutcomes :
          SendAlert(t, sev, config, sink)

(***************************************************************************)
(* The daily monitoring script: run_daily_monitoring.py                    *)
(***************************************************************************)
MaxRuns == 2
KeepSummaries == 30
DriftRateAlert == 50

\* reference_stats.json: empty until update_reference_from_recent_data
\* has run on enough data
NoStats == [n_samples |-> 0, mean |-> Null, std |-> Null]

\* SlidingWindowDriftDetector.get_drift_summary(n_reports)
get_drift_summary(history, n_reports) ==
    LET recent == PySlice(history, -n_reports, Len(history))
        IsDrift(r) == r.drift_detected = TRUE
        drift_count == Len(SelectSeq(recent, IsDrift))
    IN IF recent = <<>>
       THEN [kind |-> "message", total_checks |-> 0, drift_detected_count |-> 0,
             drift_rate |-> 0]
       ELSE [kind |-> "summary", total_checks |-> Len(recent),
             drift_detected_count |-> drift_count,
             drift_rate |-> (drift_count * 100) \div Len(recent)]

\* a call of get_drift_summary with one keyword argument: a keyword that
\* is not a parameter of the method is a TypeError before the body runs
call_get_drift_summary(history, keyword, value) ==
    IF keyword # "n_reports"
    THEN [kind |-> "TypeError", total_checks |-> 0, drift_detected_count |-> 0,
          drift_rate |-> 0]
    ELSE get_drift_summary(history, value)

\* the drift step of the script (lines 74-90): nothing without reference
\* statistics, else get_drift_summary(days=7)
NoDriftReport == [kind |-> "empty", total_checks |-> 0, drift_detected_count |-> 0,
                  drift_rate |-> 0]
drift_step(stats, history) ==
    IF stats.n_samples = 0 THEN NoDriftReport
    ELSE call_get_drift_summary(history, "days", 7)

\* send_alert for each message in turn, on the same channels
RECURSIVE send_alerts(_, _, _, _, _, _)
send_alerts(history, config, msgs, i, sink, nowts) ==
    IF i > Len(msgs) THEN [history |-> history, raised |-> FALSE]
    ELSE LET alert == [timestamp |-> nowts, type |-> msgs[i].type,
                       severity |-> "WARNING", message |-> msgs[i].message]
             r == send_alert(history, config, alert, sink)
         IN IF r.raised THEN [history |-> r.history, raised |-> TRUE]
            ELSE send_alerts(r.history, config, msgs, i + 1, sink, nowts)

\* the alerts of one run (lines 109-131): one per performance violation,
\* and one when more than half of the drift checks found drift
alerts_triggered(metrics, drift_report) ==
    LET perf == IF DOMAIN metrics = {} THEN <<>> ELSE check_performance_metrics(metrics)
    IN [i \in 1..Len(perf) |-> [type |-> "performance_degradation",
                                 message |-> perf[i].metric]]
       \o (IF drift_report.kind = "summary" /\ drift_report.drift_rate > DriftRateAlert
           THEN <<[type |-> "data_drift", message |-> "drift_rate"]>> ELSE <<>>)

\* the summary appended to daily_summary.json, the last KeepSummaries kept
append_summary(summaries, summary) ==
    PySlice(Append(summaries, summary), -KeepSummaries, Len(summaries) + 1)

EmptyMetrics == [k \in {} |-> Null]
NoDailyOp == [op |-> "none", outcome |-> "none", validated |-> 0, reference |-> FALSE,
              drift |-> "none", alerts |-> 0, summary_saved |-> FALSE]

DailyInit ==
    /\ reference_stats = NoStats
    /\ daily_summaries = <<>>
    /\ dailyOp = NoDailyOp

\* update_reference_from_recent_data (setup_drift_detection.py runs it):
\* the reference statistics are saved when the window has 10 rows or more
UpdateReference(rk, ck, len) ==
    LET ref == reference_window(MakeDf(rk, ck, len), drift_config) IN
    /\ reference_stats' = IF Len(ref) < MinReference THEN reference_stats
                          ELSE calculate_stats(ref)
    /\ UNCHANGED <<daily_summaries, dailyOp>>
    /\ UNCHANGED <<fetchVars, ledgerVars, monitorVars, driftVars, jobVars, alertVars, laterVars>>

\* one run of the script with the realized prices answered by the sources
\* and the answer of the webhook; an exception leaves the script where it
\* is raised, with what was saved before
DailyRun(l, v8, yf, config, sink) ==
    \E r \in {validate_predictions(l, metrics_history, pg, sqlite, json_file,
                                   metrics_history, pg_enabled, AllUp, v8, yf, now)} :
    \E mh2 \in {IF r.validated > 0 THEN calculate_metrics(r.preds, r.mh, now, window_days) ELSE r.mh} :
    \E report \in {drift_step(reference_stats, drift_history)} :
    LET metrics == IF r.validated > 0 THEN mh2.daily_metrics[Len(mh2.daily_metrics)]
                   ELSE EmptyMetrics
        msgs == alerts_triggered(metrics, report)
        sent == send_alerts(alert_history, config, msgs, 1, sink, now)
        outcome == IF r.kind = "raise" THEN "raise"
                   ELSE IF report.kind = "TypeError" THEN "TypeError"
                   ELSE IF sent.raised THEN "raise"
                   ELSE "ok"
        summary == [timestamp |-> now, validated_predictions |-> r.validated,
                    current_mape |-> Lookup(metrics, "mape"),
                    total_triggered |-> Len(msgs)]
    IN
    /\ pg' = r.pg
    /\ sqlite' = r.sqlite
    /\ json_file' = r.file
    /\ metrics_history' = IF r.kind # "raise" /\ r.validated > 0 THEN mh2 ELSE r.mfile
    /\ alert_history' = IF r.kind # "raise" /\ report.kind # "TypeError"
                        THEN sent.history ELSE alert_history
    /\ daily_summaries' = IF outcome = "ok" THEN append_summary(daily_summaries, summary)
                          ELSE daily_summaries
    /\ dailyOp' = [op |-> "run", outcome |-> outcome, validated |-> r.validated,
                   reference |-> reference_stats.n_samples # 0,
                   drift |-> report.kind,
                   alerts |-> IF outcome = "ok" THEN Len(msgs) ELSE 0,
                   summary_saved |-> outcome = "ok"]
    /\ UNCHANGED <<predictions_db, now, holiday, monOp, reference_stats, alertOp>>
    /\ UNCHANGED <<fetchVars, pg_enabled, lastOp, outage_ids, driftVars, jobVars, laterVars>>

\* the history handed to update_reference_from_recent_data: too short for
\* a reference window, and long enough
ReferenceLengths == {12, 17}

\* the channels of the runs: the default file, and Slack switched on
DailyConfigs ==
    { c \in AlertConfigs : ~c.enable_email /\ ~c.sender_email
                           /\ c.enable_slack = c.slack_webhook_url }

RunDailyMonitoring ==
    /\ Len(daily_summaries) < MaxRuns
    /\ Len(metrics_history.daily_metrics) < MaxSnapshots
    /\ Len(alert_history) < MaxAlerts
    /\ \E l \in load_predictions_db(pg, sqlite, pg_enabled, AllUp, json_file),
          config \in DailyConfigs, sink \in SinkOutcomes,
          v8 \in RealizedResponses(DateOf(now), window_days, holiday) :
            IF ~Failed(v8)
            THEN DailyRun(l, v8, v8, config, sink)
            ELSE \E yf \in RealizedResponses(DateOf(now), window_days, holiday) :
                    DailyRun(l, v8, yf, config, sink)

NextDaily ==
    \/ Tick
    \/ \E val \in JobValues, rid \in MonitorIds : PredictAuto(val, rid, AllUp)
    \/ \E len \in ReferenceLengths : UpdateReference("spread", "same", len)
    \/ RunDailyMonitoring

(***************************************************************************)
(* GET /data/historical/{ticker}: api/main.py, MarketDataDB.get_data_by_period *)
(***************************************************************************)
HTTP_404 == 404
\* the ticker whose rows the cache holds, and the tickers asked for
CachedTicker == "B3SA3.SA"
\* a date string: the day it names (the i-th cached row is of day i), or
\* Malformed for a string strptime rejects
Malformed == 0
DateStrings == {Malformed, 1, 2, 3}
\* datetime.strptime(s, "%Y-%m-%d"): the day, or ValueError
strptime(s) == IF s = Malformed THEN [error |-> TRUE, day |-> 0]
               ELSE [error |-> FALSE, day |-> s]

\* MarketDataDB.get_data_by_period: the ticker's rows dated between the
\* two days, oldest first, or None
get_data_by_period(table, tk, start, end) ==
    LET days == {i \in 1..Len(table) : tk = CachedTicker /\ start <= i /\ i <= end}
        rows == [i \in 1..Cardinality(days) |-> table[SetMin(days) + i - 1]]
    IN IF days = {} THEN [none |-> TRUE, rows |-> <<>>]
       ELSE [none |-> FALSE, rows |-> rows]

\* obter_dados_historicos: the status answered and the number of rows
\* sent; an HTTPException raised inside the second try block is caught by
\* its except Exception clause and raised again as a 500
obter_dados_historicos(available, table, tk, start_date, end_date, dbOk) ==
    LET start_dt == strptime(start_date)
        end_dt == strptime(end_date)
        d == get_data_by_period(table, tk, start_dt.day, end_dt.day)
    IN IF ~available THEN [status |-> HTTP_503, count |-> 0]
       ELSE IF start_dt.error \/ end_dt.error THEN [status |-> HTTP_400, count |-> 0]
       ELSE IF start_dt.day > end_dt.day THEN [status |-> HTTP_400, count |-> 0]
       ELSE IF ~dbOk THEN [status |-> HTTP_500, count |-> 0]
       ELSE IF d.none \/ d.rows = <<>> THEN [status |-> HTTP_500, count |-> 0]
       ELSE IF \E i \in 1..Len(d.rows) : RowHasNaN(d.rows[i])
       THEN [status |-> HTTP_500, count |-> 0]
       ELSE [status |-> 200, count |-> Len(d.rows)]

NoHistOp == [op |-> "none", available |-> FALSE, ticker |-> "none", start_date |-> 0,
             end_date |-> 0, dbOk |-> FALSE, in_period |-> 0, status |-> 0, count |-> 0]

\* a monitor built with the default window, before any metrics call
NoMetricOp == [op |-> "none", flip |-> FALSE]
MetricQuiet ==
    /\ monitor_window = window_days
    /\ metricOp = NoMetricOp

\* one call of PerformanceMonitor.calculate_metrics on the monitor
CalculateMetrics ==
    /\ Len(metrics_history.daily_metrics) <= MaxSnapshots
    /\ metrics_history' = calculate_metrics(predictions_db, metrics_history, now,
                                            monitor_window)
    /\ metricOp' = [op |-> "metrics", flip |-> ~metricOp.flip]
    /\ UNCHANGED <<predictions_db, json_file, now, holiday, monOp, monitor_window>>
    /\ UNCHANGED <<fetchVars, ledgerVars, driftVars, jobVars, alertVars, dailyVars, histVars>>

LaterQuiet == histOp = NoHistOp /\ MetricQuiet

\* the cache being loaded, with the fetcher at rest
HistInit ==
    /\ API_V8_DISPONIVEL = FALSE
    /\ DB_DISPONIVEL \in BOOLEAN
    /\ FALLBACK_DISPONIVEL = FALSE
    /\ stock_data = <<>>
    /\ fpc = "idle"
    /\ ticker = CachedTicker
    /\ dias = 1
    /\ tentativa = 0
    /\ fonte = NoFonte
    /\ ret = NoRet
    /\ queried = <<>>
    /\ df = <<>>
    /\ sleeps = <<>>
    /\ histOp = NoHistOp

\* one request to the endpoint
ObterDadosHistoricos(tk, start_date, end_date, dbOk) ==
    LET r == obter_dados_historicos(DB_DISPONIVEL, stock_data, tk, start_date, end_date, dbOk)
        in_period == IF start_date = Malformed \/ end_date = Malformed THEN 0
                     ELSE Cardinality({i \in 1..Len(stock_data) :
                            tk = CachedTicker /\ start_date <= i /\ i <= end_date})
    IN
    /\ histOp' = [op |-> "historical", available |-> DB_DISPONIVEL, ticker |-> tk,
                  start_date |-> start_date, end_date |-> end_date, dbOk |-> dbOk,
                  in_period |-> in_period, status |-> r.status, count |-> r.count]
    /\ UNCHANGED <<fetchVars, ledgerVars, monitorVars, driftVars, jobVars, alertVars, dailyVars, metricVars>>

\* the scripts load the cache between the requests
NextHistorical ==
    \/ \E b \in Batches : PopulateDb(b)
    \/ \E b \in Batches : UpdateDb(b)
    \/ \E tk \in {CachedTicker, "PETR4.SA"}, start_date \in DateStrings,
          end_date \in DateStrings, dbOk \in BOOLEAN :
            ObterDadosHistoricos(tk, start_date, end_date, dbOk)

\* the jobs over an empty ledger
\* predictions with distinct request ids are registered while the scheduled
\* validation run is under way
RegisterIds == {"r1", "r2"}
NextRegister ==
    \/ Tick
    \/ \E val \in JobValues, rid \in RegisterIds : PredictAuto(val, rid, AllUp)
    \/ JobStart("cron")
    \/ JobRun("cron")
InitRegister == JobInit /\ MonitorQuiet /\ LedgerStart /\ FetchQuiet /\ DriftInit /\ AlertInit /\ DailyInit /\ LaterQuiet
SpecRegister == InitRegister /\ [][NextRegister]_vars

\* monitors built with a window of one record or with the default one
MonitorWindows == {1, window_days}
NextMetrics ==
    \/ Tick
    \/ \E val \in JobValues, rid \in RegisterIds : RegisterPrediction(val, rid, AllUp)
    \/ \E days_back \in DaysBack : ValidateJob(days_back, AllUp)
    \/ CalculateMetrics
InitMetrics ==
    /\ monitor_window \in MonitorWindows
    /\ metricOp = NoMetricOp
    /\ histOp = NoHistOp
    /\ MonitorQuiet /\ LedgerStart /\ FetchQuiet /\ DriftInit /\ JobInit /\ AlertInit /\ DailyInit
SpecMetrics == InitMetrics /\ [][NextMetrics]_vars

InitJobs == JobInit /\ MonitorQuiet /\ LedgerStart /\ FetchQuiet /\ DriftInit /\ AlertInit /\ DailyInit /\ LaterQuiet
SpecJobs == InitJobs /\ [][NextJobs]_vars

\* the components added later, at rest
ExtraQuiet == DriftInit /\ JobInit /\ AlertInit /\ DailyInit /\ LaterQuiet

\* one monitor whose callers may leave request_id at its default (None)
RecordIds == {"r1", NoneId}
NextRecords ==
    \/ Tick
    \/ \E val \in JobValues, rid \in RecordIds : RegisterPrediction(val, rid, AllUp)
    \/ \E days_back \in DaysBack : ValidateJob(days_back, AllUp)

InitRecords == MonitorQuiet /\ LedgerStart /\ FetchQuiet /\ ExtraQuiet
SpecRecords == InitRecords /\ [][NextRecords]_vars

\* the historical-data endpoint over the cache
InitHistorical == HistInit /\ MetricQuiet /\ LedgerQuiet /\ MonitorQuiet /\ DriftInit /\ JobInit /\ AlertInit /\ DailyInit
SpecHistorical == InitHistorical /\ [][NextHistorical]_vars

\* the daily script over an empty ledger
InitDaily == DailyInit /\ AlertInit /\ DriftInit /\ JobInit /\ MonitorQuiet /\ LedgerStart /\ FetchQuiet /\ LaterQuiet
SpecDaily == InitDaily /\ [][NextDaily]_vars

\* the alert system alone
InitAlert == AlertInit /\ DriftInit /\ JobInit /\ DailyInit /\ LaterQuiet /\ FetchQuiet /\ LedgerQuiet /\ MonitorQuiet
SpecAlert == InitAlert /\ [][NextAlert]_vars

\* the drift detector alone
\* detectors built with other window sizes and thresholds than the defaults,
\* over the drift_reports.json and reference_statistics.json left by
\* earlier runs
WideCurrent == [DefaultConfig EXCEPT !.current_window_days = 12]
Lenient == [DefaultConfig EXCEPT !.mean_threshold_pct = 25, !.std_threshold_pct = 150]
DetectorConfigs == {DefaultConfig, WideCurrent, Lenient}
FreshDetector(cfg) == [config |-> cfg, reference_stats |-> NoStats, drift_history |-> <<>>]
StoredReport(ck) ==
    detect_drift_sliding_window(FreshDetector(DefaultConfig), MakeDf("spread", ck, 17),
                                50, "datetime")
StoredHistory ==
    [i \in 1..(KeepReports - 1) |->
        IF i % 2 = 1 THEN StoredReport("same") ELSE StoredReport("shift")]
StoredStats == calculate_stats(CurPart("jump"))
DetectorCurKinds == {"same", "jump"}
DetectorLengths == {11, 17, 40}
NextDetector ==
    \E rk \in RefKinds, ck \in DetectorCurKinds, len \in DetectorLengths,
       index_kind \in IndexKinds :
        DetectDrift(rk, ck, len, 1, index_kind)
InitDetector ==
    /\ drift_config \in DetectorConfigs
    /\ \/ drift_history = <<>> /\ reference_stats = NoStats
       \/ drift_history = StoredHistory /\ reference_stats = StoredStats
    /\ driftOp = NoDriftOp
    /\ daily_summaries = <<>>
    /\ dailyOp = NoDailyOp
    /\ JobInit /\ AlertInit /\ LaterQuiet /\ FetchQuiet /\ LedgerQuiet /\ MonitorQuiet
SpecDetector == InitDetector /\ [][NextDetector]_vars

InitDrift == DriftInit /\ JobInit /\ AlertInit /\ DailyInit /\ LaterQuiet /\ FetchQuiet /\ LedgerQuiet /\ MonitorQuiet
SpecDrift == InitDrift /\ [][NextDrift]_vars

\* the monitor over an empty ledger, no fetch running
InitMonitor == MonitorInit /\ LedgerStart /\ FetchQuiet /\ ExtraQuiet
SpecMonitor == InitMonitor /\ [][NextMonitor]_vars

\* the ledger alone
InitLedger == LedgerInit /\ FetchQuiet /\ MonitorQuiet /\ ExtraQuiet
SpecLedger == InitLedger /\ [][NextLedger]_vars

\* the fetcher alone
InitFetch == FetchInit /\ LedgerQuiet /\ MonitorQuiet /\ ExtraQuiet
SpecFetch == InitFetch /\ [][NextFetch]_vars

(***************************************************************************)
(* Properties of the historical-data endpoint                              *)
(***************************************************************************)
\* C18: GET /data/historical/{ticker} answers 503 when the database module
\* is unavailable, 400 when a date is malformed or start_date is after
\* end_date, and 404 when the cache holds no rows of the ticker in the
\* period; a request that finds no rows is never answered 500
C18_HistoricalStatuses ==
    histOp.op = "historical" =>
        LET bad == histOp.start_date = Malformed \/ histOp.end_date = Malformed
                   \/ histOp.start_date > histOp.end_date
        IN /\ ~histOp.available => histOp.status = HTTP_503
           /\ histOp.available /\ bad => histOp.status = HTTP_400
           /\ histOp.available /\ ~bad /\ histOp.dbOk /\ histOp.in_period = 0
                => histOp.status = HTTP_404

(***************************************************************************)
(* Properties of the daily script                                          *)
(***************************************************************************)
\* C29 (run_daily_monitoring.py 40-67; performance_monitor.py 375-377): one
\* run of the daily monitoring job appends at most one snapshot to the metrics
\* history
C29_OneSnapshotPerRun ==
    [][ dailyOp'.op = "run" =>
          Len(metrics_history'.daily_metrics) <= Len(metrics_history.daily_metrics) + 1 ]_vars

\* C16: every run of run_daily_monitoring ends normally, with or without
\* reference statistics and whatever the validation gave: it goes through
\* the drift step and the alerts and saves the daily summary
C16_DailyRunEndsNormally ==
    dailyOp.op = "run" => dailyOp.outcome = "ok" /\ dailyOp.summary_saved

(***************************************************************************)
(* Properties of the alert system                                          *)
(***************************************************************************)
\* C15: every send_alert appends its alert to the saved history, whatever
\* the Slack webhook does (unreachable, raising, non-200), and no exception
\* leaves the call
C15_AlertIsAlwaysRecorded ==
    [][ alertOp'.op = "send" =>
          /\ alert_history' = Append(alert_history, alertOp'.alert)
          /\ ~alertOp'.raised ]_vars

\* a send whose webhook call raised, recorded all the same
C15_Witness ==
    /\ alertOp.op = "send"
    /\ alertOp.sink = "raise"
    /\ alertOp.slack = "failed"
    /\ alert_history # <<>>
    /\ alert_history[Len(alert_history)] = alertOp.alert

\* C17: check_performance_metrics returns exactly one violation for each of
\* mae and mape that is present and strictly above its threshold: two when
\* both exceed, none when neither does, a value equal to its threshold
\* included
C17_ViolationsAreStrictExcesses ==
    alertOp.op = "check" =>
        LET V == alertOp.violations
            Has(m) == \E i \in 1..Len(V) : V[i].metric = m
            Due(v, thr) == v # Null /\ v > thr
            n == (IF Due(alertOp.mae, mae_threshold) THEN 1 ELSE 0)
                 + (IF Due(alertOp.mape, mape_threshold) THEN 1 ELSE 0)
        IN /\ Has("mae") <=> Due(alertOp.mae, mae_threshold)
           /\ Has("mape") <=> Due(alertOp.mape, mape_threshold)
           /\ Len(V) = n

\* mae equal to its threshold and mape above its own: one violation, for mape
C17_Witness ==
    /\ alertOp.op = "check"
    /\ alertOp.mae = mae_threshold
    /\ alertOp.mape > mape_threshold
    /\ Len(alertOp.violations) = 1
    /\ alertOp.violations[1].metric = "mape"

(***************************************************************************)
(* Properties of the ledger                                                *)
(***************************************************************************)
RowsOf(table, rid) == {table[i] : i \in {j \in 1..Len(table) : table[j].request_id = rid}}

\* C5: while PostgreSQL is unreachable and SQLite is available, a record
\* call succeeds by writing to SQLite, and a query made while PostgreSQL is
\* unreachable, with no filter excluding the record and a limit covering the
\* table, returns every record written that way.
C5_RecordSurvivesPgOutage ==
    /\ (lastOp.op = "insert" /\ PgUnreachable(lastOp.env) /\ lastOp.env.sq = "ok") =>
          /\ lastOp.ret = "True"
          /\ lastOp.backend = "sqlite"
          /\ \E r \in RowsOf(sqlite, lastOp.rid) : r.predicted_value = lastOp.val
    /\ (/\ lastOp.op = "query"
        /\ PgUnreachable(lastOp.env)
        /\ lastOp.env.sq = "ok"
        /\ lastOp.vf = NoFilter
        /\ lastOp.limit >= Len(sqlite)) =>
          \A rid \in outage_ids : \E i \in 1..Len(lastOp.rows) :
              /\ lastOp.rows[i].request_id = rid
              /\ lastOp.rows[i] \in RowsOf(sqlite, rid)

\* a query during an outage of an enabled PostgreSQL returns the record
\* that was written to SQLite during the outage
C5_Witness ==
    /\ pg_enabled
    /\ lastOp.op = "query"
    /\ ~lastOp.env.pg
    /\ lastOp.env.sq = "ok"
    /\ outage_ids = {"r1"}
    /\ \E i \in 1..Len(lastOp.rows) : lastOp.rows[i].request_id = "r1"

\* C23 (db_manager.py 408-443, 528-597): a prediction whose record call
\* succeeded during a PostgreSQL outage is returned by every later query a
\* backend answers, with a matching ticker, no validation filter and a limit
\* covering the tables, whether PostgreSQL is reachable again or not
C23_RecordedIsAlwaysReturned ==
    (/\ lastOp.op = "query"
     /\ lastOp.backend \in {"pg", "sqlite"}
     /\ lastOp.vf = NoFilter
     /\ lastOp.limit >= Len(pg) + Len(sqlite)) =>
        \A rid \in outage_ids : \E i \in 1..Len(lastOp.rows) :
            lastOp.rows[i].request_id = rid

\* the table update_prediction_validation writes for this call
TargetIsPg(env, rid) == pg_enabled /\ env.pg /\ rowcount(pg, rid) > 0
ValidatedIn(table, rid) == \E r \in RowsOf(table, rid) : r.validated

\* C6: update_prediction_validation on a record that is already validated
\* is a no-op: it reports success and leaves both tables, hence the
\* record's actual_value, error, error_pct and validation_date, unchanged.
C6_RevalidateIsNoOp ==
    [][ (/\ lastOp'.op = "update"
         /\ IF TargetIsPg(lastOp'.env, lastOp'.rid)
            THEN ValidatedIn(pg, lastOp'.rid)
            ELSE lastOp'.env.sq = "ok" /\ ValidatedIn(sqlite, lastOp'.rid))
        => (pg' = pg /\ sqlite' = sqlite /\ lastOp'.ret = "True") ]_vars

StaysValidated(table, tableNext) ==
    \A i \in 1..Len(table) :
        /\ HasRow(tableNext, table[i].request_id)
        /\ table[i].validated =>
              \E r \in RowsOf(tableNext, table[i].request_id) :
                  /\ r.validated
                  /\ r.actual_value # Null
                  /\ r.error # Null
                  /\ r.error_pct # Null

\* C10: on either backend no record is ever deleted, and a validated record
\* stays validated with its actual/error fields filled, whatever record and
\* markValidated calls follow.
C10_ValidatedIsFinal ==
    [][ StaysValidated(pg, pg') /\ StaysValidated(sqlite, sqlite') ]_vars

\* C9: when neither backend can be reached, insert_prediction and
\* update_prediction_validation report the failure by returning False; they
\* do not raise.
C9_FailureIsReturned ==
    (/\ lastOp.op \in {"insert", "update"}
     /\ PgUnreachable(lastOp.env)
     /\ lastOp.env.sq = "unreachable") => lastOp.ret = "False"

\* C11: after a write that PostgreSQL took while SQLite was available, the
\* SQLite table holds the same record: an inserted prediction is there with
\* the value written, a validation is there with the validation written.
C11_PgWriteIsMirrored ==
    (/\ lastOp.op \in {"insert", "update"}
     /\ lastOp.ret = "True"
     /\ lastOp.backend = "pg"
     /\ lastOp.env.sq = "ok") =>
        /\ RowsOf(pg, lastOp.rid) # {}
        /\ RowsOf(sqlite, lastOp.rid) = RowsOf(pg, lastOp.rid)

(***************************************************************************)
(* Properties of the performance monitor                                   *)
(***************************************************************************)
IndicesOf(list, rid) == {i \in 1..Len(list) : list[i].request_id = rid}

\* C4: recording is an upsert keyed by request_id: each backend table and
\* the list register_prediction maintains hold at most one record per
\* request_id.
C4_OneRecordPerRequestId ==
    \A rid \in MonitorIds :
        /\ Cardinality(IndicesOf(pg, rid)) <= 1
        /\ Cardinality(IndicesOf(sqlite, rid)) <= 1
        /\ Cardinality(IndicesOf(predictions_db, rid)) <= 1

\* the days up to today on which the market traded
MarketDays(today) == (0..today) \ {holiday}

\* C7: a step of validate_predictions validates an entry only if its target
\* date (the day after its timestamp) is not after today, and the actual
\* value it writes is the close of the first trading day on or after the
\* target date, never the close of a later day.
C7_ValidatesDueAtMatchedClose ==
    [][ monOp'.op = "validate" =>
          /\ Len(predictions_db') = Len(predictions_db)
          /\ \A i \in 1..Len(predictions_db) :
                (predictions_db'[i].validated /\ ~predictions_db[i].validated) =>
                    LET target == DateOf(predictions_db[i].timestamp) + 1
                        today == DateOf(now)
                    IN /\ target <= today
                       /\ \E d \in MarketDays(today) :
                             /\ d >= target
                             /\ \A e \in MarketDays(today) : e >= target => d <= e
                             /\ predictions_db'[i].actual_value = Close(d) ]_vars

\* an entry recorded on day 0 was validated, over the holiday of day 1, with
\* the close of day 2
C7_Witness ==
    /\ monOp.op = "validate"
    /\ monOp.kind = "ok"
    /\ monOp.validated >= 1
    /\ holiday = 1
    /\ \E i \in 1..Len(predictions_db) :
          /\ predictions_db[i].validated
          /\ DateOf(predictions_db[i].timestamp) = 0
          /\ predictions_db[i].actual_value = Close(2)

C21_RecordFailureIsConfined ==
    [][ (monOp'.op = "validate" /\ monOp'.fetched = "data" /\ now' = now) =>
          LET today == DateOf(now)
              Ready(e) == /\ ~e.validated
                          /\ e.request_id # NoneId
                          /\ DateOf(e.timestamp) + 1 <= today
                          /\ \E d \in MarketDays(today) :
                                /\ d >= DateOf(e.timestamp) + 1
                                /\ d <= DateOf(e.timestamp) + 1 + (SearchDays - 1)
          IN /\ Len(predictions_db') = Len(predictions_db)
             /\ \A i \in 1..Len(predictions_db) :
                   Ready(predictions_db[i]) => predictions_db'[i].validated
             /\ json_file' = predictions_db' ]_vars

\* C25 (performance_monitor.py 229-239, 297-385): the counts a completed
\* validation pass returns partition the records that were unvalidated at
\* its start, and pending is the number of records still unvalidated after it
C25_CountsPartitionAndPendingIsLeft ==
    (monOp.op = "validate" /\ monOp.kind = "ok") =>
        /\ monOp.validated + monOp.skipped_future + monOp.not_found = monOp.unvalidated
        /\ monOp.pending = Len(Unvalidated(predictions_db))

\* C28 (performance_monitor.py 387-453): a call of calculate_metrics with at
\* least one validated record appends exactly one snapshot, computed over the
\* min(window, number of validated records) most recent validated records by
\* prediction time, leaves the earlier snapshots unchanged and sets the
\* summary to that snapshot; with no validated record it changes nothing.
\* The window is one record or more.
ValidatedIdx(preds) == {i \in 1..Len(preds) : preds[i].validated /\ preds[i].error # Null}
RECURSIVE SumErrors(_, _)
SumErrors(preds, S) ==
    IF S = {} THEN 0
    ELSE LET i == CHOOSE x \in S : TRUE IN preds[i].error + SumErrors(preds, S \ {i})
RECURSIVE SumErrorPcts(_, _)
SumErrorPcts(preds, S) ==
    IF S = {} THEN 0
    ELSE LET i == CHOOSE x \in S : TRUE IN preds[i].error_pct + SumErrorPcts(preds, S \ {i})
C8_FailedFetchValidatesNothing ==
    [][ (monOp'.op = "validate" /\ monOp'.fetched = "failed") =>
          /\ monOp'.kind = "error"
          /\ monOp'.validated = 0
          /\ predictions_db' = predictions_db
          /\ json_file' = json_file
          /\ pg' = pg
          /\ sqlite' = sqlite
          /\ metrics_history' = metrics_history ]_vars

\* a validation whose fetch failed while an entry was due
C8_Witness ==
    /\ monOp.op = "validate"
    /\ monOp.fetched = "failed"
    /\ monOp.kind = "error"
    /\ monOp.pending >= 1
    /\ \E i \in 1..Len(predictions_db) :
          /\ ~predictions_db[i].validated
          /\ DateOf(predictions_db[i].timestamp) + 1 <= DateOf(now)

(***************************************************************************)
(* Properties of the periodic jobs                                         *)
(***************************************************************************)
\* at most one run of the validation job is in progress
SingleFlight == Cardinality({j \in JobIds : jobs[j].pc # "idle"}) <= 1

\* the ledger table that holds the predictions
LedgerTable == IF pg_enabled THEN pg ELSE sqlite

\* the run of j that ends in this step validated an entry whose ledger
\* record was already validated
Revalidates(j) ==
    /\ jobs[j].pc = "loaded"
    /\ jobs'[j].pc = "idle"
    /\ jobs'[j].validated > 0
    /\ \E i \in 1..Len(jobs[j].preds) :
          /\ ~jobs[j].preds[i].validated
          /\ ValidatedIn(LedgerTable, jobs[j].preds[i].request_id)

\* C24 (performance_monitor.py 92-131, 297-366; api/main.py 588-598): a
\* prediction registered by one monitor while the validation pass of another
\* is under way is not lost: every request id in predictions_tracking.json
\* when the pass ends its work is still in the file afterwards
FileIds(file) == {file[i].request_id : i \in 1..Len(file)}
C24_RegisteredIsNotOverwritten ==
    [][ \A j \in JobIds :
          (jobs[j].pc = "loaded" /\ jobs'[j].pc = "idle") =>
              FileIds(json_file) \subseteq FileIds(json_file') ]_vars

\* C14: runs of the validation job are single-flight: no run starts while
\* another is in progress, and no run validates a prediction that another
\* run has already validated.
C14_JobsAreSingleFlight ==
    [][ SingleFlight' /\ \A j \in JobIds : ~Revalidates(j) ]_vars

(***************************************************************************)
(* Properties of the drift detector                                        *)
(***************************************************************************)
\* the drift verdict the thresholds prescribe for a report's comparisons
ExpectedDrift(op) ==
    LET r == op.result IN
    \/ r.mean_diff_pct > mean_threshold_pct * 100
    \/ r.std_diff_pct > std_threshold_pct * 100
    \/ /\ op.n_current >= KsMinCurrent
       /\ op.n_reference >= KsMinReference
       /\ op.p_value < significance_level
       /\ (r.mean_diff_pct > KsMeanPct * 100 \/ r.std_diff_pct > KsStdPct * 100)

\* C22 (drift_detector.py 181-193): whenever a verdict is produced, the current
\* window is exactly the last current_window_days observations and the
\* reference window is the up to reference_window_days observations right
\* before it, so the windows share no observation and leave none between them
LastRows(n, k, upto) == [i \in 1..k |-> upto - k + i]
C22_WindowsAreAdjacentAndDisjoint ==
    (/\ driftOp.op = "detect"
     /\ driftOp.result.kind = "report") =>
        LET cw == drift_config.current_window_days
            rw == drift_config.reference_window_days
            n == driftOp.len
        IN /\ driftOp.current_rows = LastRows(n, cw, n)
           /\ driftOp.reference_rows = LastRows(n, Min(rw, n - cw), n - cw)
           /\ \A i \in 1..Len(driftOp.current_rows), j \in 1..Len(driftOp.reference_rows) :
                driftOp.current_rows[i] # driftOp.reference_rows[j]

\* C26 (drift_detector.py 199-255): in every report the verdict fields agree:
\* drift_detected is true exactly when severity is not "none" and exactly
\* when the alerts list is not empty
C26_VerdictFieldsAgree ==
    (/\ driftOp.op = "detect"
     /\ driftOp.result.kind = "report") =>
        /\ (driftOp.result.drift_detected = TRUE) <=> (driftOp.result.severity # "none")
        /\ (driftOp.result.drift_detected = TRUE) <=> (driftOp.result.alerts # <<>>)

\* C27 (drift_detector.py 277-281): after every check the history holds at
\* most KeepReports reports, in the order they were produced; they are the
\* most recent ones, the oldest being the one evicted beyond the cap
C27_HistoryKeepsMostRecent ==
    [][ (/\ driftOp'.op = "detect"
         /\ driftOp'.checks = driftOp.checks + 1) =>
            LET h == IF driftOp'.result.kind = "report"
                     THEN Append(drift_history, driftOp'.result)
                     ELSE drift_history
                k == Len(drift_history')
            IN /\ k = Min(Len(h), KeepReports)
               /\ \A i \in 1..k : drift_history'[i] = h[Len(h) - k + i] ]_vars

\* a report was appended to a full history: the oldest stored report is gone
C27_Witness ==
    /\ driftOp.op = "detect"
    /\ driftOp.result.kind = "report"
    /\ driftOp.before = KeepReports
    /\ Len(drift_history) = KeepReports
    /\ drift_history[KeepReports] = driftOp.result
    /\ drift_history[1] = StoredReport("shift")
    /\ drift_history[1] # StoredHistory[1]

\* C30 (drift_detector.py 158-305): the verdict of a check depends on the
\* series and the configured thresholds only: a detector with other stored
\* reference statistics and another history answers the same verdict
OtherDetectors ==
    {FreshDetector(drift_config),
     [config |-> drift_config, reference_stats |-> StoredStats,
      drift_history |-> StoredHistory]}
C30_VerdictIgnoresStoredState ==
    driftOp.op = "detect" =>
        \A other \in OtherDetectors :
            driftOp.result =
                detect_drift_sliding_window(other,
                    MakeDf(driftOp.rk, driftOp.ck, driftOp.len),
                    driftOp.p_value, driftOp.index_kind)

\* a detector that loaded reference statistics and a history reported drift
C30_Witness ==
    /\ driftOp.op = "detect"
    /\ driftOp.result.kind = "report"
    /\ driftOp.result.drift_detected = TRUE
    /\ reference_stats = StoredStats
    /\ driftOp.before >= KeepReports - 1

\* C12: a check on windows of sufficient size returns a report whose
\* drift_detected is true exactly when the mean difference exceeds its
\* threshold, or the deviation difference exceeds its threshold, or the KS
\* test was run with p below the significance level and the mean difference
\* is above 3% or the deviation difference above 30%.
C12_DriftRule ==
    (/\ driftOp.op = "detect"
     /\ driftOp.n_current >= MinCurrent
     /\ driftOp.n_reference >= MinReference) =>
        /\ driftOp.result.kind = "report"
        /\ driftOp.result.drift_detected = ExpectedDrift(driftOp)

\* C13: a check whose current window has fewer than 3 observations or whose
\* reference window has fewer than 10 returns the insufficient-data error,
\* which carries no drift_detected verdict, and leaves the drift history
\* as it was.
C13_InsufficientDataIsExplicit ==
    [][ (/\ driftOp'.op = "detect"
         /\ (driftOp'.n_current < MinCurrent \/ driftOp'.n_reference < MinReference)) =>
            /\ driftOp'.result.kind = "error"
            /\ driftOp'.result.drift_detected = "absent"
            /\ drift_history' = drift_history ]_vars

\* after a report was recorded, a check with a full current window and a
\* short reference window returned the error
C13_Witness ==
    /\ driftOp.op = "detect"
    /\ driftOp.n_current >= MinCurrent
    /\ driftOp.n_reference < MinReference
    /\ driftOp.n_reference > 0
    /\ driftOp.result.kind = "error"
    /\ Len(drift_history) >= 1

(***************************************************************************)
(* Properties of the cascading fetch                                       *)
(***************************************************************************)
ValidMatrix(m, n) ==
    /\ Len(m) = n
    /\ \A i \in 1..Len(m) :
          /\ ~RowHasNaN(m[i])
          /\ ~RowNonPositive(m[i])
          /\ RowOrdered(m[i])

\* C1: a finished fetch either returned exactly `dias` rows, none with a
\* NaN, every Open/High/Low/Close > 0 and High >= Low on every row, or it
\* failed with an HTTP error; it never returns a partial or invalid matrix.
C1_ValidOrUnavailable ==
    fpc = "done" =>
        \/ ret.kind = "ok" /\ ValidMatrix(ret.matrix, dias)
        \/ ret.kind = "http"

\* C2: with API v8 failing, yfinance answering ShortRows rows when
\* WINDOW_SIZE are requested and the SQLite cache holding WINDOW_SIZE valid
\* rows, the short batch counts as a failed attempt and the fetch returns
\* the cache's rows with provenance SQLite.
C2_RejectedBatchFallsThrough ==
    (/\ fpc = "done"
     /\ dias = WINDOW_SIZE
     /\ DB_DISPONIVEL
     /\ stock_data = Uniform(WINDOW_SIZE)
     /\ queried # <<>>
     /\ queried[Len(queried)] = SrcYF
     /\ df = Uniform(ShortRows))
    => ret = OkRet(Uniform(WINDOW_SIZE), SrcSQLite)

\* C19: for each source the fetcher makes at most max_tentativas attempts,
\* goes to the next source only when the attempts of the one before are
\* used up, and sleeps the backoff between two consecutive attempts at the
\* same source (so there are as many sleeps as repeated attempts)
C19_RetriesPerSource ==
    LET n == Len(queried)
        Attempts(src, k) == Cardinality({i \in 1..k : queried[i] = src})
        Repeats == {i \in 1..(n - 1) : queried[i] = queried[i + 1]}
    IN /\ \A i \in 1..n : Attempts(queried[i], n) <= max_tentativas
       /\ \A i \in 1..(n - 1) :
             queried[i] # queried[i + 1] => Attempts(queried[i], i) = max_tentativas
       /\ Len(sleeps) = Cardinality(Repeats)

Rank(src) ==
    CASE src = SrcV8 -> 1
      [] src = SrcYF -> 2
      [] src = SrcSQLite -> 3
      [] src = SrcFallback -> 4

\* the rows the named source answered with in this fetch
SuppliedBy(src) ==
    CASE src = SrcV8 -> df
      [] src = SrcYF -> df
      [] src = SrcSQLite -> stock_data
      [] src = SrcFallback -> get_dados_exemplo(dias)

\* C3: sources are consulted in the order API v8, yfinance, SQLite,
\* fallback; a returned matrix carries the provenance of the source that
\* was consulted last, its rows are that source's rows, and every source
\* consulted before it has a lower priority rank.
C3_ProvenanceIsSupplier ==
    /\ \A i \in 1..Len(queried) : \A j \in i..Len(queried) :
          Rank(queried[i]) <= Rank(queried[j])
    /\ (fpc = "done" /\ ret.kind = "ok") =>
          /\ queried # <<>>
          /\ ret.fonte = queried[Len(queried)]
          /\ ret.matrix = TailRows(SuppliedBy(ret.fonte), dias)

\* API v8 and the three yfinance attempts failed and the SQLite cache
\* supplied the rows
C3_Witness ==
    /\ fpc = "done"
    /\ ret.kind = "ok"
    /\ ret.fonte = SrcSQLite
    /\ Len(queried) = 5
    /\ queried[1] = SrcV8
====
